---------------------------- MODULE Spec2Model ----------------------------
(***************************************************************************)
(* Model of the fraud-detection repository: the training script train.py   *)
(* (pre_processar_dados, the fit loop, the persisted artifacts) and the    *)
(* dashboard app.py (the model registry and its callbacks).                *)
(*                                                                         *)
(* Data frames are records [columns, dtypes, index, rows]: columns is the  *)
(* ordered list of column names, dtypes maps a column to its pandas dtype, *)
(* index is the list of row labels and rows the list of rows, each a       *)
(* function from column name to a cell.  The cell of an integer or object  *)
(* column is a number: the strings of an object column are numbered        *)
(* 1..NumCat in their lexical order, so that "sorted" and "distinct" mean  *)
(* what they mean in pandas, and a missing cell (NaN) is a number that no  *)
(* string, label or code is.  The cell of a float64 column is the triple   *)
(* <<w, h, l>> of the value w + (h * 2^26 + l) / 2^53, h < 2^27, l < 2^26: *)
(* the amounts of the program are such values, none negative.              *)
(***************************************************************************)
EXTENDS Integers, Sequences, FiniteSets, TLC

\* ------------------------------------------------------------------ bounds

\* The largest number of rows of one class in a raw dataset.
MaxClassRows == 8
\* Distinct strings an object column of the raw file may hold.
NumCat == 3
\* The amounts of the raw file are whole multiples of GapDen.
GapDen == 2
\* The streams numpy's global generator may yield (it is seeded from the
\* operating system's entropy) that are tried.
NumGenerators == 2
\* Invocations of pre_processar_dados on the same source (SpecRepeat).
MaxCalls == 2
\* Words drawn from numpy's global generator between two invocations.
MaxDraws == 2

\* ------------------------------------------------------- program constants

\* SMOTE(...): k_neighbors is left at the library default.
k_neighbors == 5
\* test_size=0.3, as the fraction TestNum/TestDen.
TestNum == 3
TestDen == 10

\* A missing cell.
NaN == 0 - 128
ZipColumns == <<"zipcodeOri", "zipMerchant">>

\* ----------------------------------------------------------------- helpers

Range(s) == {s[i] : i \in DOMAIN s}

Min(a, b) == IF a <= b THEN a ELSE b

Abs(a) == IF a >= 0 THEN a ELSE 0 - a

RECURSIVE SelectSeqIdx(_, _, _)
\* The positions of s (from i on), in order, whose element is in the set keep.
SelectSeqIdx(s, keep, i) ==
    IF i > Len(s) THEN <<>>
    ELSE (IF s[i] \in keep THEN <<i>> ELSE <<>>) \o SelectSeqIdx(s, keep, i + 1)

Count(s, v) == Cardinality({i \in DOMAIN s : s[i] = v})

\* ------------------------------------------------------------- data frames

EmptyFrame ==
    [columns |-> <<>>, dtypes |-> [c \in {} |-> "object"], index |-> <<>>, rows |-> <<>>]

\* DataFrame.iloc[positions] (positions are 1-based here, labels are kept).
Take(df, positions) ==
    [df EXCEPT !.index = [i \in DOMAIN positions |-> df.index[positions[i]]],
               !.rows = [i \in DOMAIN positions |-> df.rows[positions[i]]]]

\* A result of a library call: a value, or the exception it raised.
Ok(v) == [ok |-> TRUE, val |-> v, err |-> "none"]
Raise(e) == [ok |-> FALSE, val |-> EmptyFrame, err |-> e]

\* The frame without the columns named in the set gone.
WithoutColumns(df, gone) ==
    LET keepPos == SelectSeqIdx(df.columns, Range(df.columns) \ gone, 1)
        cols == [i \in DOMAIN keepPos |-> df.columns[keepPos[i]]]
    IN  [columns |-> cols,
         dtypes |-> [c \in Range(cols) |-> df.dtypes[c]],
         index |-> df.index,
         rows |-> [i \in DOMAIN df.rows |-> [c \in Range(cols) |-> df.rows[i][c]]]]

\* errors='ignore': the labels that are present are dropped, the others skipped.
DropIgnoreMissing(df, labels) == Ok(WithoutColumns(df, Range(labels)))

\* Only the first label is looked up before the columns are removed.
DropCheckFirst(df, labels) ==
    IF Len(labels) > 0 /\ labels[1] \notin Range(df.columns)
    THEN Raise("KeyError")
    ELSE Ok(WithoutColumns(df, Range(labels)))

\* DataFrame.drop(labels, axis=1) (errors='raise'): KeyError when a label is
\* no column of the frame, else the frame without those columns.
DropExact(df, labels) ==
    IF \E i \in DOMAIN labels : labels[i] \notin Range(df.columns)
    THEN Raise("KeyError")
    ELSE Ok(WithoutColumns(df, Range(labels)))

\* dados.drop(['zipcodeOri', 'zipMerchant'], axis=1)
Drop(df, labels) == DropExact(df, labels)

\* X = dados_reduzidos.drop(['fraud'], axis=1)
DropTarget(df, labels) == DropExact(df, labels)

\* select_dtypes(include=['object']).columns
select_dtypes_object(df) ==
    LET pos == SelectSeqIdx([i \in DOMAIN df.columns |-> df.dtypes[df.columns[i]]],
                            {"object"}, 1)
    IN  [i \in DOMAIN pos |-> df.columns[pos[i]]]

\* The distinct non-missing values of a column: the categories of
\* astype('category'), which pandas keeps sorted.
Categories(df, col) == {df.rows[i][col] : i \in DOMAIN df.rows} \ {NaN}

\* Series.cat.codes: the position of the value among the sorted categories,
\* -1 for a missing value.
CatCode(cats, v) ==
    IF v \notin cats THEN 0 - 1
    ELSE Cardinality({w \in cats : w < v})

\* Lines 13-16: every object column becomes its category codes (int8). On a
\* frame without rows DataFrame.apply does not call the lambda and returns
\* the columns as they are, of dtype category.
EncodeCategoricals(df) ==
    LET cat == Range(select_dtypes_object(df))
    IN  [df EXCEPT
          !.dtypes = [c \in DOMAIN df.dtypes |->
                        IF c \notin cat THEN df.dtypes[c]
                        ELSE IF df.rows = <<>> THEN "category" ELSE "int8"],
          !.rows = [i \in DOMAIN df.rows |->
                      [c \in DOMAIN df.rows[i] |->
                         IF c \in cat
                         THEN CatCode(Categories(df, c), df.rows[i][c])
                         ELSE df.rows[i][c]]]]

\* Let(v, F) is F(v) with v evaluated once, before F is applied.
Let(v, F(_)) == CHOOSE r \in {F(x) : x \in {v}} : TRUE

\* ------------------------------------------------------ random generators

\* The first words numpy's RandomState(42) yields (MT19937 seeded by
\* init_genrand(42)), each 32-bit word as <<its high 16 bits, its low 16
\* bits>>.
MT19937_42 ==
    <<<<24545, 56422>>, <<52202, 15795>>, <<62306, 860>>, <<12021, 38158>>, <<47971, 62570>>,
       <<51097, 54343>>, <<39233, 44732>>, <<39115, 11284>>, <<10224, 54886>>, <<29218, 6265>>,
       <<10223, 16850>>, <<6551, 62678>>, <<3806, 37194>>, <<30097, 21962>>, <<56765, 47191>>,
       <<21869, 60788>>, <<39394, 44131>>, <<9362, 60263>>, <<46404, 16023>>, <<42656, 41090>>,
       <<1349, 1685>>, <<3696, 64820>>, <<63564, 769>>, <<47316, 59735>>, <<54554, 62955>>,
       <<61508, 64925>>, <<13915, 56101>>, <<51, 2433>>, <<11916, 5311>>, <<65025, 37819>>,
       <<12019, 39188>>, <<40467, 17568>>, <<19938, 53707>>, <<40085, 19769>>, <<34390, 28693>>,
       <<463, 6396>>, <<28307, 62187>>, <<1511, 27480>>, <<19085, 65072>>, <<34391, 41434>>,
       <<40098, 25658>>, <<26205, 18942>>, <<9141, 57001>>, <<3058, 18431>>, <<19145, 64987>>,
       <<63816, 2747>>, <<24009, 58319>>, <<15254, 59150>>, <<29889, 189>>, <<5937, 64445>>,
       <<51457, 19118>>, <<40526, 35773>>, <<13085, 53810>>, <<25065, 1899>>, <<33700, 56886>>,
       <<64437, 1267>>, <<38824, 31551>>, <<30589, 50680>>, <<3044, 11394>>, <<56357, 3556>>,
       <<39816, 3890>>, <<44584, 41606>>, <<11175, 30740>>, <<29523, 60232>>, <<4263, 14502>>,
       <<869, 21777>>, <<62186, 10627>>, <<61748, 8792>>, <<63283, 43323>>, <<36915, 43021>>,
       <<52979, 8433>>, <<25258, 43001>>, <<19963, 11016>>, <<1046, 23897>>, <<6401, 2612>>,
       <<15131, 56193>>, <<44841, 58707>>, <<15795, 55387>>, <<28845, 54638>>, <<44778, 23483>>,
       <<7997, 58822>>, <<39976, 48555>>, <<32451, 59900>>, <<54604, 17159>>, <<2253, 44974>>,
       <<11361, 40994>>, <<59593, 14541>>, <<25628, 35920>>, <<16959, 26531>>, <<11943, 1585>>,
       <<43419, 3943>>, <<49503, 23939>>, <<20428, 19457>>, <<27863, 1021>>, <<34083, 11653>>,
       <<13627, 43573>>, <<35829, 13417>>, <<37204, 52995>>, <<12114, 40757>>, <<2052, 9692>>,
       <<63542, 45758>>, <<55199, 63889>>, <<50799, 6873>>, <<29475, 5675>>, <<61571, 161>>,
       <<25896, 37065>>, <<58643, 26557>>, <<60729, 33763>>, <<39183, 63757>>, <<47662, 32606>>,
       <<60415, 62255>>, <<21400, 11534>>, <<5799, 29127>>, <<37384, 40397>>, <<12843, 61142>>,
       <<34133, 25851>>, <<2964, 1016>>, <<62991, 24253>>, <<21320, 55591>>, <<55347, 24276>>,
       <<25472, 23247>>, <<48976, 24300>>, <<17783, 8529>>, <<35369, 17262>>, <<54312, 9268>>,
       <<38453, 21271>>, <<23380, 12185>>, <<63258, 63704>>, <<18411, 21243>>, <<39782, 39099>>,
       <<35566, 8571>>, <<18087, 57836>>, <<9235, 39976>>, <<19416, 38044>>, <<52572, 51214>>,
       <<10830, 61228>>, <<4885, 49216>>, <<1024, 48984>>, <<64676, 40774>>, <<27748, 2568>>,
       <<50609, 54615>>, <<25878, 62592>>, <<13023, 2027>>, <<19234, 2695>>, <<361, 58839>>,
       <<922, 48190>>, <<53442, 5258>>, <<13031, 22002>>, <<46324, 39504>>, <<46618, 33159>>,
       <<47776, 13986>>, <<51784, 61858>>, <<50545, 63776>>, <<39712, 12666>>, <<4852, 38660>>,
       <<60706, 3561>>, <<23492, 26854>>, <<42668, 64505>>, <<7593, 38952>>, <<59962, 52251>>,
       <<56564, 22662>>, <<55708, 8392>>, <<40848, 30535>>, <<29455, 13067>>, <<21685, 48033>>,
       <<6252, 52256>>, <<4165, 23599>>, <<24301, 61942>>, <<20380, 35222>>, <<43833, 11837>>,
       <<21311, 14039>>, <<43641, 58148>>, <<47815, 30818>>, <<38751, 19115>>, <<41782, 63335>>,
       <<18004, 10965>>, <<58144, 24538>>, <<36781, 42530>>, <<30947, 5056>>, <<25095, 32482>>,
       <<7837, 47716>>, <<63682, 8110>>, <<46743, 13773>>, <<55634, 27266>>, <<49858, 52992>>,
       <<47299, 17412>>, <<36783, 56537>>, <<15465, 33270>>, <<50526, 6910>>, <<16781, 45453>>,
       <<32361, 25446>>, <<2649, 56090>> >>

\* The k-th word (from 0) of the stream of numpy's global generator, which is
\* seeded from the operating system's entropy: entropy names which stream it
\* got.
EntropyWord(entropy, k) ==
    << (entropy * 31337 + k * k * 17 + k * 5003 + 11) % 65536,
       (entropy * 7919 + k * 1297 + entropy * k * 13 + 3) % 65536 >>

\* np.random.RandomState(seed): the generator at the start of the stream of
\* the seed.  A generator is [seed, pos]: its stream and the number of words
\* drawn from it; the streams of the global generator have the seeds -1,
\* -2, ...
RandomState(seed) == [seed |-> seed, pos |-> 0]

\* numpy's global generator as the import of numpy leaves it.
GlobalRandomState(entropy) == RandomState(0 - entropy)

\* The next word of the generator.
Word(s) ==
    IF s.seed = 42 THEN MT19937_42[s.pos + 1] ELSE EntropyWord(0 - s.seed, s.pos)

\* The generator after k more words.
StateAfter(s, k) == [s EXCEPT !.pos = @ + k]

\* The smallest 2^b - 1 that is not below max.
Mask(max) ==
    CHOOSE m \in {2^b - 1 : b \in 0..16} :
        m >= max /\ \A b \in 0..16 : 2^b - 1 >= max => m <= 2^b - 1

RECURSIVE Interval(_, _)
\* random_interval / the masked bounded draw: a number in 0..max; words are
\* drawn until the low bits left by the mask are at most max (no word is
\* drawn for max = 0).
Interval(max, s) ==
    IF max = 0 THEN [val |-> 0, rs |-> s]
    ELSE IF Word(s)[2] % (Mask(max) + 1) <= max
         THEN [val |-> Word(s)[2] % (Mask(max) + 1), rs |-> StateAfter(s, 1)]
         ELSE Interval(max, StateAfter(s, 1))

RECURSIVE RandIntSeq(_, _, _)
\* random_state.randint(0, high, size=n): n bounded draws in order, and the
\* generator after them.
RandIntSeq(s, high, n) ==
    IF n = 0 THEN [vals |-> <<>>, rs |-> s]
    ELSE Let(RandIntSeq(s, high, n - 1), LAMBDA prev :
         Let(Interval(high - 1, prev.rs), LAMBDA d :
             [vals |-> Append(prev.vals, d.val), rs |-> d.rs]))

\* random_state.uniform(size=n): each double takes two words, a and b, and is
\* ((a >> 5) * 2^26 + (b >> 6)) / 2^53; it is kept as <<a >> 5, b >> 6>>.
UniformSeq(s, n) ==
    [vals |-> [t \in 1..n |->
                 << Word(StateAfter(s, 2 * t - 2))[1] * 2048
                        + Word(StateAfter(s, 2 * t - 2))[2] \div 32,
                    Word(StateAfter(s, 2 * t - 1))[1] * 1024
                        + Word(StateAfter(s, 2 * t - 1))[2] \div 64 >>],
     rs |-> StateAfter(s, 2 * n)]

\* The float64 of a whole number.
Float(n) == <<n, 0, 0>>

RECURSIVE BitLength(_)
\* The number of binary digits of w.
BitLength(w) == IF w = 0 THEN 0 ELSE 1 + BitLength(w \div 2)

\* The float64 nearest to t, ties to the even significand: a value below 1
\* has at most 53 significant bits and is kept; a whole part of b bits
\* leaves 53 - b bits after the point, and the b lowest of the 53 are
\* rounded away: bits of l for b up to 26, else all of l and b - 26 bits
\* of h.
Round53(t) ==
    IF t[1] = 0 THEN t
    ELSE IF BitLength(t[1]) <= 26
    THEN
    Let(2 ^ BitLength(t[1]), LAMBDA m :
    Let((t[3] - (t[3] % m))
          + (IF \/ (t[3] % m) > (m \div 2)
                \/ /\ (t[3] % m) = (m \div 2)
                   /\ (IF m = 67108864 THEN t[2] % 2 ELSE (t[3] \div m) % 2) = 1
             THEN m ELSE 0), LAMBDA l :
    Let(t[2] + (l \div 67108864), LAMBDA h :
        <<t[1] + (h \div 134217728), h % 134217728, l % 67108864>>)))
    ELSE
    Let(2 ^ (BitLength(t[1]) - 26), LAMBDA m :
    Let((t[2] - (t[2] % m))
          + (IF \/ (t[2] % m) > (m \div 2)
                \/ /\ (t[2] % m) = (m \div 2)
                   /\ (t[3] > 0 \/ ((t[2] \div m) % 2) = 1)
             THEN m ELSE 0), LAMBDA h :
        <<t[1] + (h \div 134217728), h % 134217728, 0>>))

\* u * d for a double u = <<A, B>> in [0,1) and a whole d >= 0, exactly: the
\* product (A * 2^26 + B) * d is formed in three limbs.
TimesStep(u, d) ==
    Let([lo |-> u[2] * d, mid |-> (u[1] % 16384) * d, hi |-> (u[1] \div 16384) * d],
        LAMBDA p :
    Let(p.mid + p.lo \div 67108864, LAMBDA mid :
    Let(p.hi + mid \div 16384, LAMBDA hi :
        <<hi \div 8192, (hi % 8192) * 16384 + (mid % 16384), p.lo % 67108864>>)))

\* base + u * (nb - base) in float64, for two whole values base and nb that
\* are not negative: the product is rounded, then the sum.
InterpolateFloat(base, nb, u) ==
    Let(Round53(TimesStep(u, Abs(nb - base))), LAMBDA m :
        Round53(IF nb >= base THEN <<base + m[1], m[2], m[3]>>
                ELSE IF m[2] = 0 /\ m[3] = 0 THEN <<base - m[1], 0, 0>>
                ELSE IF m[3] = 0 THEN <<base - m[1] - 1, 134217728 - m[2], 0>>
                ELSE <<base - m[1] - 1, 134217727 - m[2], 67108864 - m[3]>>))

\* a < b for two float64 cells.
FloatLess(a, b) ==
    \/ a[1] < b[1]
    \/ a[1] = b[1] /\ a[2] < b[2]
    \/ a[1] = b[1] /\ a[2] = b[2] /\ a[3] < b[3]

\* a + b, exactly.
FloatAdd(a, b) ==
    IF a[2] = 0 /\ a[3] = 0 THEN <<a[1] + b[1], b[2], b[3]>>
    ELSE LET h == a[2] + b[2] + ((a[3] + b[3]) \div 67108864)
         IN  <<a[1] + b[1] + (h \div 134217728), h % 134217728, (a[3] + b[3]) % 67108864>>

\* big - small for small <= big, exactly.
FloatMinus(big, small) ==
    LET h == big[2] - small[2] - (IF big[3] < small[3] THEN 1 ELSE 0)
    IN  <<big[1] - small[1] - (IF h < 0 THEN 1 ELSE 0),
          (h + 134217728) % 134217728,
          (big[3] - small[3] + 67108864) % 67108864>>

\* |a - b|, exactly.
FloatAbsDiff(a, b) == IF FloatLess(a, b) THEN FloatMinus(b, a) ELSE FloatMinus(a, b)

\* base + m for a whole base and a float64 m >= 0 that is added (up) or
\* taken away, in float64: the sign of the sum and its size, rounded.
SignedSum(base, m, up) ==
    IF up = (base >= 0)
    THEN [negative |-> ~up, size |-> Round53(<<Abs(base) + m[1], m[2], m[3]>>)]
    ELSE IF m[1] >= Abs(base)
    THEN [negative |-> ~up, size |-> Round53(<<m[1] - Abs(base), m[2], m[3]>>)]
    ELSE [negative |-> up, size |-> Round53(FloatMinus(Float(Abs(base)), m))]

\* astype(int) of X[rows] + steps * diffs for a column of whole numbers:
\* the product u * (nb - base) and the sum are rounded to float64, and the
\* sum is cut toward zero.
Interpolate(base, nb, u) ==
    Let(SignedSum(base, Round53(TimesStep(u, Abs(nb - base))), nb >= base), LAMBDA sum :
        IF sum.negative THEN 0 - sum.size[1] ELSE sum.size[1])

\* --------------------------------------- float64 quotients and products
\* A whole number of any size is kept as its digits to the base 8192, the
\* lowest first; a float64 x > 0 is kept as [m, e], x = m * 2^e, with m a
\* whole number of at most 53 bits (zero: m = 0).

RECURSIVE BigTimesPlus(_, _, _)
\* a * k + c for whole k and c below 2^17, every digit below the base.
BigTimesPlus(a, k, c) ==
    IF a = <<>> THEN IF c = 0 THEN <<>> ELSE <<c % 8192>> \o BigTimesPlus(<<>>, k, c \div 8192)
    ELSE <<(a[1] * k + c) % 8192>>
            \o BigTimesPlus(Tail(a), k, (a[1] * k + c) \div 8192)

RECURSIVE BigBits(_)
\* The number of binary digits of a.
BigBits(a) ==
    IF a = <<>> THEN 0
    ELSE Let(BigBits(Tail(a)), LAMBDA high :
             IF high > 0 THEN 13 + high ELSE BitLength(a[1]))

\* The bit of a that counts 2^k.
BigBit(a, k) ==
    IF (k \div 13) + 1 > Len(a) THEN 0
    ELSE (a[(k \div 13) + 1] \div (2 ^ (k % 13))) % 2

\* a % 2^k = 0
BigLowZero(a, k) ==
    /\ \A i \in 1..Min(Len(a), k \div 13) : a[i] = 0
    /\ (k \div 13) + 1 <= Len(a) => a[(k \div 13) + 1] % (2 ^ (k % 13)) = 0

RECURSIVE Zeros(_)
\* n digits 0
Zeros(n) == IF n = 0 THEN <<>> ELSE <<0>> \o Zeros(n - 1)

\* a * 2^s
BigShiftLeft(a, s) ==
    IF s % 13 = 0 THEN Zeros(s \div 13) \o a
    ELSE BigTimesPlus(Zeros(s \div 13) \o a, 2 ^ (s % 13), 0)

RECURSIVE BigInt(_)
\* The whole number of the digits a (below 2^31).
BigInt(a) == IF a = <<>> THEN 0 ELSE a[1] + 8192 * BigInt(Tail(a))

\* The n lowest digits of a.
BigLow(a, n) == [i \in 1..n |-> IF i <= Len(a) THEN a[i] ELSE 0]

\* The digits of a above its n lowest.
BigHigh(a, n) == IF Len(a) <= n THEN <<>> ELSE SubSeq(a, n + 1, Len(a))

\* a < b for two numbers of n digits each.
BigLess(a, b, n) ==
    \E i \in 1..n : a[i] < b[i] /\ \A j \in (i + 1)..n : a[j] = b[j]

RECURSIVE BigDivPow(_, _)
\* a \div p for a power p of two below the base.
BigDivPow(a, p) ==
    IF a = <<>> THEN <<>>
    ELSE <<(a[1] \div p) + (IF Len(a) > 1 THEN (a[2] % p) * (8192 \div p) ELSE 0)>>
            \o BigDivPow(Tail(a), p)

\* a \div 2^s
BigShiftRight(a, s) == BigDivPow(BigHigh(a, s \div 13), 2 ^ (s % 13))

\* a / 2^s for s > 0, rounded to the nearest whole number, a half to the
\* even one; sticky: the value has a part below a.
RoundShift(a, s, sticky) ==
    IF /\ BigBit(a, s - 1) = 1
       /\ (sticky \/ ~BigLowZero(a, s - 1) \/ BigBit(a, s) = 1)
    THEN BigTimesPlus(BigShiftRight(a, s), 1, 1) ELSE BigShiftRight(a, s)

RECURSIVE BigTrim(_)
\* a without its highest digits that are 0.
BigTrim(a) ==
    IF a = <<>> THEN <<>>
    ELSE IF a[Len(a)] = 0 THEN BigTrim(SubSeq(a, 1, Len(a) - 1))
    ELSE a

RECURSIVE Normal(_, _)
\* m * 2^e with the lowest digits of m that are 0 moved into e (zero: e = 0).
Normal(m, e) ==
    IF m = <<>> THEN [m |-> <<>>, e |-> 0]
    ELSE IF m[1] = 0 THEN Normal(Tail(m), e + 13)
    ELSE [m |-> m, e |-> e]

\* The float64 nearest to m * 2^e, where the part of the value below m is
\* zero or not (sticky).
Float64(m, e, sticky) ==
    IF BigBits(m) <= 53 THEN Normal(BigTrim(m), e)
    ELSE Normal(BigTrim(RoundShift(m, BigBits(m) - 53, sticky)), e + BigBits(m) - 53)

RECURSIVE LongDiv(_, _, _)
\* floor(r * 2^k / d) and what is left, for r < d, bit by bit.
LongDiv(r, d, k) ==
    IF k = 0 THEN [q |-> 0, r |-> r]
    ELSE Let(LongDiv(r, d, k - 1), LAMBDA p :
             IF 2 * p.r >= d THEN [q |-> 2 * p.q + 1, r |-> 2 * p.r - d]
             ELSE [q |-> 2 * p.q, r |-> 2 * p.r])

RECURSIVE FractionDigits(_, _, _)
\* The first k digits of r / d after the point, the lowest first, and what
\* is left; a digit is found in one division where r * 8192 is within the
\* integers at hand, else bit by bit.
FractionDigits(r, d, k) ==
    IF k = 0 THEN [digits |-> <<>>, r |-> r]
    ELSE Let(IF d <= 262144
             THEN [q |-> (r * 8192) \div d, r |-> (r * 8192) % d]
             ELSE LongDiv(r, d, 13), LAMBDA first :
         Let(FractionDigits(first.r, d, k - 1), LAMBDA rest :
             [digits |-> Append(rest.digits, first.q), r |-> rest.r]))

\* n / d in float64, for whole n >= 0 and d > 0: the quotient to 78 binary
\* places, rounded.
FloatDiv(n, d) ==
    Let(FractionDigits(n % d, d, 6), LAMBDA f :
        Float64(BigTimesPlus(f.digits \o <<n \div d>>, 1, 0), 0 - 78, f.r # 0))

\* x * k in float64, for a whole k below 2^17.
FloatTimes(x, k) == Float64(BigTimesPlus(x.m, k, 0), x.e, FALSE)

\* np.rint(x): the nearest whole number, a half to the even one.
FloatRint(x) ==
    IF x.e >= 0 THEN BigInt(BigShiftLeft(x.m, x.e))
    ELSE IF BigBits(x.m) + x.e < 0 THEN 0
    ELSE BigInt(RoundShift(x.m, 0 - x.e, FALSE))

\* x as the digits of x * 2^104 (x.e is at least -104): the eight lowest
\* are the part of x after the point, the others np.floor(x).
FloatDigits(x) == BigShiftLeft(x.m, 104 + x.e)

RECURSIVE BigPlus(_, _, _)
\* a + b + c for a carry c of 0 or 1.
BigPlus(a, b, c) ==
    IF a = <<>> /\ b = <<>> THEN IF c = 0 THEN <<>> ELSE <<c>>
    ELSE IF a = <<>> THEN BigPlus(b, a, c)
    ELSE IF b = <<>>
    THEN IF c = 0 THEN a
         ELSE <<(a[1] + c) % 8192>> \o BigPlus(Tail(a), b, (a[1] + c) \div 8192)
    ELSE <<(a[1] + b[1] + c) % 8192>>
            \o BigPlus(Tail(a), Tail(b), (a[1] + b[1] + c) \div 8192)

RECURSIVE BigMinus(_, _, _)
\* a - b - c for a borrow c of 0 or 1 and b + c at most a.
BigMinus(a, b, c) ==
    IF a = <<>> THEN <<>>
    ELSE IF b = <<>>
    THEN IF c = 0 THEN a
         ELSE <<(a[1] - c + 8192) % 8192>>
                 \o BigMinus(Tail(a), b, IF a[1] - c < 0 THEN 1 ELSE 0)
    ELSE <<(a[1] - b[1] - c + 8192) % 8192>>
            \o BigMinus(Tail(a), Tail(b), IF a[1] - b[1] - c < 0 THEN 1 ELSE 0)

RECURSIVE BigTimes(_, _)
\* a * b
BigTimes(a, b) ==
    IF b = <<>> THEN <<>>
    ELSE BigPlus(BigTimesPlus(a, b[1], 0), <<0>> \o BigTimes(a, Tail(b)), 0)

\* 0.0
FloatZero == [m |-> <<>>, e |-> 0]

\* x + y in float64.
FloatPlus(x, y) ==
    Float64(BigPlus(BigShiftLeft(x.m, x.e - Min(x.e, y.e)),
                    BigShiftLeft(y.m, y.e - Min(x.e, y.e)), 0), Min(x.e, y.e), FALSE)

\* x - y in float64, for y at most x.
FloatSub(x, y) ==
    Float64(BigMinus(BigShiftLeft(x.m, x.e - Min(x.e, y.e)),
                     BigShiftLeft(y.m, y.e - Min(x.e, y.e)), 0), Min(x.e, y.e), FALSE)

\* x * y in float64.
FloatMul(x, y) == Float64(BigTimes(x.m, y.m), x.e + y.e, FALSE)

\* x / 2.0
FloatHalf(x) == [m |-> x.m, e |-> x.e - 1]

RECURSIVE SumStride(_, _, _, _, _)
\* res += a[i], a[i + step], ... up to a[last], one after the other.
SumStride(res, a, i, last, step) ==
    IF i > last THEN res
    ELSE SumStride(FloatPlus(res, a[i]), a, i + step, last, step)

RECURSIVE PairwiseSum(_, _, _)
\* numpy's sum of the float64 a[from..to], n of them: fewer than 8 are added
\* one after the other; up to 128 are added into 8 sums, of every 8th
\* element each, the 8 sums are added in pairs and what is left of the
\* elements one after the other; more are halved.
PairwiseSum(a, from, to) ==
    Let(to - from + 1, LAMBDA n :
        IF n < 8 THEN SumStride(FloatZero, a, from, to, 1)
        ELSE IF n <= 128
        THEN Let([j \in 0..7 |->
                    SumStride(a[from + j], a, from + j + 8, to - (n % 8), 8)], LAMBDA r :
                 SumStride(FloatPlus(FloatPlus(FloatPlus(r[0], r[1]), FloatPlus(r[2], r[3])),
                                     FloatPlus(FloatPlus(r[4], r[5]), FloatPlus(r[6], r[7]))),
                           a, to - (n % 8) + 1, to, 1))
        ELSE FloatPlus(PairwiseSum(a, from, from + ((n \div 2) - ((n \div 2) % 8)) - 1),
                       PairwiseSum(a, from + ((n \div 2) - ((n \div 2) % 8)), to)))

\* One step of the shuffle: position i is swapped with a position drawn in 1..i.
ShuffleStep(arr, i, s) ==
    Let(Interval(i - 1, s), LAMBDA j :
        [vals |-> [arr EXCEPT ![i] = arr[j.val + 1], ![j.val + 1] = arr[i]],
         rs |-> j.rs])

RECURSIVE Shuffle(_, _, _)
\* random_state.shuffle: the steps for i from the last position down to the
\* second.
Shuffle(arr, i, s) ==
    IF i < 2 THEN [vals |-> arr, rs |-> s]
    ELSE Let(ShuffleStep(arr, i, s), LAMBDA st : Shuffle(st.vals, i - 1, st.rs))

\* random_state.permutation(arr)
Permutation(arr, s) == Let(arr, LAMBDA a : Shuffle(a, Len(a), s))

\* random_state.choice(arr, size, replace=False): the head of a permutation.
Choice(arr, size, s) ==
    Let(Permutation(arr, s), LAMBDA p : [vals |-> SubSeq(p.vals, 1, size), rs |-> p.rs])

\* check_random_state(random_state): a seed (<<n>>) makes a fresh generator,
\* None (<<>>) hands out numpy's global generator in its current state.
check_random_state(random_state, global) ==
    IF random_state = <<>> THEN global ELSE RandomState(random_state[1])

\* The state numpy's global generator is left in by a call that was given
\* random_state and left its generator in state after.
GlobalAfter(random_state, global, after) ==
    IF random_state = <<>> THEN after ELSE global

\* ------------------------------------------------------- the raw dataset

RawColumns ==
    <<"age", "gender", "zipcodeOri", "zipMerchant", "category", "amount", "fraud">>

\* The dtypes pd.read_csv infers for a file of n rows: a column with no cell
\* to infer from is object, so every column of a header-only file is.
RawDtypes(n) ==
    [c \in Range(RawColumns) |->
        IF n = 0 THEN "object"
        ELSE IF c = "amount" THEN "float64"
        ELSE IF c = "fraud" THEN "int64" ELSE "object"]

\* The value patterns of an object column: one value, two values with a gap
\* between them, and a column with a missing cell.
Palettes == {<<2>>, <<NumCat, 1>>, <<1, NaN, NumCat>>}

\* The fraud label of the row at position p (from 0): the classes alternate
\* while both have rows left when mixed, else the fraud=0 rows come first.
RawLabel(p, n0, n1, mixed) ==
    IF mixed
    THEN IF p < 2 * Min(n0, n1) THEN p % 2 ELSE (IF n0 > n1 THEN 0 ELSE 1)
    ELSE IF p < n0 THEN 0 ELSE 1

\* pd.read_csv of a file with n0 rows of fraud=0 and n1 rows of fraud=1, with
\* or without each zip column; amounts are whole multiples of GapDen.
RawFrame(n0, n1, hasOri, hasMer, pal, mixed) ==
    LET gone == (IF hasOri THEN {} ELSE {"zipcodeOri"}) \cup
                (IF hasMer THEN {} ELSE {"zipMerchant"})
        full == [columns |-> RawColumns,
                 dtypes |-> RawDtypes(n0 + n1),
                 index |-> [i \in 1..(n0 + n1) |-> i - 1],
                 rows |-> [i \in 1..(n0 + n1) |->
                    LET lab == RawLabel(i - 1, n0, n1, mixed)
                    IN  [c \in Range(RawColumns) |->
                          CASE c = "age" -> pal[(((i - 1) \div 3) % Len(pal)) + 1]
                            [] c = "gender" -> pal[(((i - 1) \div 2) % Len(pal)) + 1]
                            [] c = "category" -> pal[((i - 1) % Len(pal)) + 1]
                            [] c = "amount" -> Float(GapDen * (((i * 3) % 7) + 4 * lab))
                            [] c = "fraud" -> lab
                            [] OTHER -> 1]]]
    IN  WithoutColumns(full, gone)

\* A pandas Series: row labels and values.
EmptySeries == [index |-> <<>>, values |-> <<>>]

TakeSeries(sr, positions) ==
    [index |-> [i \in DOMAIN positions |-> sr.index[positions[i]]],
     values |-> [i \in DOMAIN positions |-> sr.values[positions[i]]]]

\* dados_reduzidos['fraud']
Column(df, col) ==
    [index |-> df.index, values |-> [i \in DOMAIN df.rows |-> df.rows[i][col]]]

\* RangeIndex(n): the labels 0..n-1.
RangeIndex(n) == [i \in 1..n |-> i - 1]

\* np.unique: the members of a set of numbers in ascending order.
SortAsc(S) ==
    [r \in 1..Cardinality(S) |-> CHOOSE x \in S : Cardinality({z \in S : z < x}) = r - 1]

SortDesc(S) ==
    [r \in 1..Cardinality(S) |-> CHOOSE x \in S : Cardinality({z \in S : z > x}) = r - 1]

RECURSIVE SumTo(_, _)
SumTo(s, n) == IF n = 0 THEN 0 ELSE s[n] + SumTo(s, n - 1)

SumSeq(s) == Let(s, LAMBDA v : SumTo(v, Len(v)))

\* ------------------------------------------------------------------ SMOTE

\* The number in a cell of the raw table: its amounts are whole.
Whole(dtype, cell) == IF dtype = "float64" THEN cell[1] ELSE cell

\* Squared Euclidean distance of two rows of the raw table over the feature
\* columns.
Dist2(r1, r2, cols, dtypes) ==
    SumSeq([i \in DOMAIN cols |->
              (Whole(dtypes[cols[i]], r1[cols[i]]) - Whole(dtypes[cols[i]], r2[cols[i]]))
            * (Whole(dtypes[cols[i]], r1[cols[i]]) - Whole(dtypes[cols[i]], r2[cols[i]]))])

\* ---- the k nearest rows, as scikit-learn keeps them
\* The candidates are kept in a max-heap of k entries [val, idx] laid out
\* in an array, the farthest at position 1; it starts with k entries at an
\* infinite distance. A distance is a float64.

RECURSIVE EmptyHeap(_)
\* np.full(k, DBL_MAX): the heap before the first candidate.
EmptyHeap(k) ==
    IF k = 0 THEN <<>>
    ELSE Append(EmptyHeap(k - 1), [val |-> <<2147483647, 0, 0>>, idx |-> 0])

\* The child of position c that the entry would have to go below: the
\* greater child (the left one when the two are equal) if it is greater
\* than the entry, else none (0).
SwapIdx(heap, c, entry) ==
    IF 2 * c > Len(heap) THEN 0
    ELSE IF 2 * c + 1 > Len(heap)
         THEN (IF FloatLess(entry.val, heap[2 * c].val) THEN 2 * c ELSE 0)
    ELSE IF ~FloatLess(heap[2 * c].val, heap[2 * c + 1].val)
         THEN (IF FloatLess(entry.val, heap[2 * c].val) THEN 2 * c ELSE 0)
    ELSE (IF FloatLess(entry.val, heap[2 * c + 1].val) THEN 2 * c + 1 ELSE 0)

RECURSIVE SiftDown(_, _, _)
\* heap_push, the descent: the entry goes down from position c past every
\* child picked by SwapIdx.
SiftDown(heap, c, entry) ==
    Let(SwapIdx(heap, c, entry), LAMBDA swap :
        IF swap = 0 THEN [heap EXCEPT ![c] = entry]
        ELSE SiftDown([heap EXCEPT ![c] = heap[swap]], swap, entry))

\* heap_push(values, indices, size, val, val_idx): a candidate that is not
\* nearer than the farthest entry is dropped; another takes the place of
\* the farthest entry and goes down the heap.
HeapPush(heap, entry) ==
    IF ~FloatLess(entry.val, heap[1].val) THEN heap
    ELSE SiftDown(heap, 1, entry)

RECURSIVE HeapOf(_, _, _)
\* The heap of k entries after the first n of the distances dist were
\* pushed in their order.
HeapOf(dist, n, k) ==
    IF n = 0 THEN EmptyHeap(k)
    ELSE Let(HeapOf(dist, n - 1, k), LAMBDA heap :
             HeapPush(heap, [val |-> dist[n], idx |-> n]))

RECURSIVE HeapMerge(_, _, _)
\* _parallel_on_Y_synchronize: the first n entries of a thread's heap, in
\* the order of its array, pushed on the heap main.
HeapMerge(main, heap, n) ==
    IF n = 0 THEN main
    ELSE Let(HeapMerge(main, heap, n - 1), LAMBDA merged : HeapPush(merged, heap[n]))

\* dual_swap
Swap(arr, i, j) == [arr EXCEPT ![i] = arr[j], ![j] = arr[i]]

\* A swap when the entry at i is farther than the entry at j.
SwapIfGreater(arr, i, j) ==
    IF FloatLess(arr[j].val, arr[i].val) THEN Swap(arr, i, j) ELSE arr

\* simultaneous_sort, the median-of-three rule: the smallest of the first,
\* the middle and the last entry goes first, the median last.
MedianLast(arr) ==
    Let(SwapIfGreater(arr, 1, Len(arr)), LAMBDA a1 :
        IF FloatLess(a1[(Len(arr) \div 2) + 1].val, a1[Len(arr)].val)
        THEN SwapIfGreater(Swap(a1, Len(arr), (Len(arr) \div 2) + 1), 1, Len(arr))
        ELSE a1)

RECURSIVE Partition(_, _, _)
\* simultaneous_sort, the partition about the pivot, the last entry: the
\* entries i.. that are nearer than the pivot are moved to store.. in
\* their order; at the end the pivot is moved behind them.
Partition(arr, i, store) ==
    IF i = Len(arr) THEN [arr |-> Swap(arr, store, Len(arr)), pivot |-> store]
    ELSE IF FloatLess(arr[i].val, arr[Len(arr)].val)
         THEN Partition(Swap(arr, i, store), i + 1, store + 1)
         ELSE Partition(arr, i + 1, store)

RECURSIVE SimultaneousSort(_)
\* simultaneous_sort(values, indices, size): up to three entries are sorted
\* by comparisons, more by a quicksort, which does not keep entries at the
\* same distance in their order.
SimultaneousSort(arr) ==
    IF Len(arr) <= 1 THEN arr
    ELSE IF Len(arr) = 2 THEN SwapIfGreater(arr, 1, 2)
    ELSE IF Len(arr) = 3
    THEN Let(SwapIfGreater(arr, 1, 2), LAMBDA a1 :
             IF FloatLess(a1[3].val, a1[2].val)
             THEN SwapIfGreater(Swap(a1, 2, 3), 1, 2)
             ELSE a1)
    ELSE Let(Partition(MedianLast(arr), 1, 1), LAMBDA p :
             (IF p.pivot > 2 THEN SimultaneousSort(SubSeq(p.arr, 1, p.pivot - 1))
              ELSE SubSeq(p.arr, 1, p.pivot - 1))
             \o <<p.arr[p.pivot]>> \o
             (IF p.pivot + 2 < Len(arr) + 1
              THEN SimultaneousSort(SubSeq(p.arr, p.pivot + 1, Len(arr)))
              ELSE SubSeq(p.arr, p.pivot + 1, Len(arr))))

RECURSIVE SquaredDistances(_, _, _, _, _)
\* The squared distances from the row at position i of rows to the first n
\* rows, as float64.
SquaredDistances(rows, cols, dtypes, i, n) ==
    IF n = 0 THEN <<>>
    ELSE Append(SquaredDistances(rows, cols, dtypes, i, n - 1),
                Float(Dist2(rows[i], rows[n], cols, dtypes)))

\* algorithm='auto' of NearestNeighbors: the distances to all n rows are
\* reduced by brute force when k neighbours are at least half of them; else
\* a k-d tree is built, of a single leaf for the sizes met here.
Brute(k, n) == k >= n \div 2

\* kneighbors(X), one row of the result: the k nearest of the rows at the
\* distances dist, nearest first. Each distance is pushed on a heap in the
\* order of the rows; by brute force that heap is then pushed, in the order
\* of its array, on the heap of the result; the heap is sorted at the end.
KNeighbors(dist, k) ==
    Let(HeapOf(dist, Len(dist), k), LAMBDA heap :
        SimultaneousSort(IF Brute(k, Len(dist))
                         THEN HeapMerge(EmptyHeap(k), heap, k)
                         ELSE heap))

\* NearestNeighbors(n_neighbors=k+1).kneighbors(X_class)[:, 1:], one entry: for
\* the row at position i of rows, the position of the row in column r of
\* the result after its first column is cut off.
KNeighbor(rows, cols, dtypes, i, r) ==
    KNeighbors(SquaredDistances(rows, cols, dtypes, i, Len(rows)), k_neighbors + 1)[r + 1].idx

\* One synthetic row: the drawn pick names a row of the class and one of its
\* k nearest neighbours, the drawn step u the point between them:
\* row + u * (neighbour - row), in float64.  The frame's dtypes are restored
\* afterwards: the integer columns are cut toward zero, the amount, a
\* float64 column, keeps its value.
NewSample(rows, cols, dtypes, pick, u) ==
    Let([base |-> rows[(pick \div k_neighbors) + 1],
         nb |-> rows[KNeighbor(rows, cols, dtypes, (pick \div k_neighbors) + 1,
                               (pick % k_neighbors) + 1)]],
        LAMBDA p : [c \in DOMAIN p.base |->
                      IF dtypes[c] = "float64"
                      THEN InterpolateFloat(p.base[c][1], p.nb[c][1], u)
                      ELSE Interpolate(p.base[c], p.nb[c], u)])

\* _make_samples: check_random_state(self.random_state), then n_samples
\* synthetic rows of one class, from n_samples drawn picks followed by
\* n_samples drawn steps; global is numpy's global generator afterwards.
MakeSamples(rows, cols, dtypes, n_samples, random_state, global) ==
    Let(RandIntSeq(check_random_state(random_state, global),
                   Len(rows) * k_neighbors, n_samples), LAMBDA picks :
    Let(UniformSeq(picks.rs, n_samples), LAMBDA steps :
        [rows |-> [t \in 1..n_samples |->
                     NewSample(rows, cols, dtypes, picks.vals[t], steps.vals[t])],
         global |-> GlobalAfter(random_state, global, steps.rs)]))

SmoteRaise(e, global) ==
    [ok |-> FALSE, err |-> e, X |-> EmptyFrame, y |-> EmptySeries, global |-> global]

\* The class to which the others are raised: max(target_stats, key=get) over
\* the classes in ascending order, so the smallest label among the largest.
MajorityClass(yv) ==
    CHOOSE c \in Range(yv) :
        /\ \A d \in Range(yv) : Count(yv, d) <= Count(yv, c)
        /\ \A d \in Range(yv) : Count(yv, d) = Count(yv, c) => c <= d

\* One row short of the majority's count.
SamplesNeededShort(yv, cls) ==
    IF Count(yv, MajorityClass(yv)) - Count(yv, cls) > 0
    THEN Count(yv, MajorityClass(yv)) - Count(yv, cls) - 1
    ELSE 0

\* The rows SMOTE has to make for class cls: sampling_strategy='auto' raises
\* every class but the majority to the majority's count.
SamplesNeeded(yv, cls) == Count(yv, MajorityClass(yv)) - Count(yv, cls)

\* kneighbors raises when it is asked for more neighbours than rows fitted.
EnoughNeighbors(m) == k_neighbors + 1 <= m

\* The frame and target with the synthetic rows of class cls appended.
WithSamples(acc, made, cls) ==
    [ok |-> TRUE, err |-> "none",
     X |-> [acc.X EXCEPT !.rows = acc.X.rows \o made.rows,
                         !.index = RangeIndex(Len(acc.X.rows) + Len(made.rows))],
     y |-> [index |-> RangeIndex(Len(acc.X.rows) + Len(made.rows)),
            values |-> acc.y.values \o [t \in DOMAIN made.rows |-> cls]],
     global |-> made.global]

\* One pass of the loop of SMOTE._fit_resample: the rows of class cls are
\* oversampled from the original X and y and appended to acc.  Every class
\* gets its generator from random_state anew.
OversampleClass(cls, orig, acc, random_state) ==
    Let([n_samples |-> SamplesNeeded(orig.y.values, cls),
         pos |-> SelectSeqIdx(orig.y.values, {cls}, 1)], LAMBDA c :
        IF c.n_samples = 0 THEN acc
        ELSE IF ~EnoughNeighbors(Len(c.pos)) THEN SmoteRaise("ValueError", acc.global)
        ELSE Let(MakeSamples([i \in DOMAIN c.pos |-> orig.X.rows[c.pos[i]]],
                             orig.X.columns, orig.X.dtypes, c.n_samples, random_state,
                             acc.global),
                 LAMBDA made : WithSamples(acc, made, cls)))

RECURSIVE OversampleClasses(_, _, _, _, _)
\* The loop over the classes to oversample (todo, ascending, from position i).
OversampleClasses(todo, i, orig, acc, random_state) ==
    IF i > Len(todo) \/ ~acc.ok THEN acc
    ELSE Let(OversampleClass(todo[i], orig, acc, random_state),
             LAMBDA a : OversampleClasses(todo, i + 1, orig, a, random_state))

\* SMOTE(random_state=...).fit_resample(X, y), numpy's global generator being
\* global: ValueError on an empty input or a single class, else the original
\* rows followed by the synthetic rows of each class but the majority.
SmoteFitResample(X, y, random_state, global) ==
    IF Len(X.rows) = 0 \/ Len(X.rows) # Len(y.values) THEN SmoteRaise("ValueError", global)
    ELSE IF Cardinality(Range(y.values)) <= 1 THEN SmoteRaise("ValueError", global)
    ELSE Let(SortAsc(Range(y.values) \ {MajorityClass(y.values)}), LAMBDA todo :
             OversampleClasses(todo, 1, [X |-> X, y |-> y],
                 [ok |-> TRUE, err |-> "none",
                  X |-> [X EXCEPT !.index = RangeIndex(Len(X.rows))],
                  y |-> [index |-> RangeIndex(Len(X.rows)), values |-> y.values],
                  global |-> global],
                 random_state))

\* The error of the oversampler is swallowed and the data passed on as it is.
fit_resample_or_skip(X, y, random_state, global) ==
    Let(SmoteFitResample(X, y, random_state, global), LAMBDA r :
        IF r.ok THEN r
        ELSE [ok |-> TRUE, err |-> "none", X |-> X, y |-> y, global |-> global])

\* X_res, y_res = sm.fit_resample(X, y)
fit_resample(X, y, random_state, global) == SmoteFitResample(X, y, random_state, global)

\* ------------------------------------------------------- train_test_split

\* _validate_shuffle_split with a float test_size and no train_size:
\* n_test = ceil(test_size * n), n_train = n - n_test.
CeilTestSize(n) == (TestNum * n + TestDen - 1) \div TestDen

\* The test size rounded down instead of up.
FloorTestSize(n) == (TestNum * n) \div TestDen

NTest(n) == CeilTestSize(n)

NTrain(n) == n - NTest(n)

\* One pass of the loop of _approximate_mode: the classes whose remainder
\* is value get one more draw each, chosen at random when fewer draws than
\* such classes are left.  st is [vals, need, rs].
AddForRemainder(st, rems, value) ==
    Let(SelectSeqIdx(rems, {value}, 1), LAMBDA inds :
    Let(Choice(inds, Min(Len(inds), st.need), st.rs), LAMBDA ch :
        [vals |-> [i \in DOMAIN st.vals |->
                     IF i \in Range(ch.vals) THEN st.vals[i] + 1 ELSE st.vals[i]],
         need |-> st.need - Len(ch.vals),
         rs |-> ch.rs]))

RECURSIVE AddByRemainder(_, _, _, _)
\* The loop over the distinct remainders (values, largest first, from i).
AddByRemainder(st, rems, values, i) ==
    IF st.need = 0 \/ i > Len(values) THEN [vals |-> st.vals, rs |-> st.rs]
    ELSE Let(AddForRemainder(st, rems, values[i]),
             LAMBDA st2 : AddByRemainder(st2, rems, values, i + 1))

\* _approximate_mode(class_counts, n_draws, rng): n_draws spread over the
\* classes in proportion to their counts. continuous = class_counts /
\* class_counts.sum() * n_draws is computed in float64, floored, and the
\* draws left go to the classes by their remainders, largest first; a
\* remainder is here its rank among the remainders.
ApproximateMode(class_counts, n_draws, s) ==
    Let([i \in DOMAIN class_counts |->
            FloatDigits(FloatTimes(FloatDiv(class_counts[i], SumSeq(class_counts)),
                                   n_draws))], LAMBDA continuous :
    Let([floored |-> [i \in DOMAIN continuous |-> BigInt(BigHigh(continuous[i], 8))],
         remainder |-> [i \in DOMAIN continuous |-> BigLow(continuous[i], 8)]], LAMBDA f :
    Let([i \in DOMAIN f.remainder |->
            Cardinality({f.remainder[j] : j \in {k \in DOMAIN f.remainder :
                            BigLess(f.remainder[k], f.remainder[i], 8)}})], LAMBDA rems :
        AddByRemainder([vals |-> f.floored, need |-> n_draws - SumSeq(f.floored),
                        rs |-> s],
                       rems, SortDesc(Range(rems)), 1))))

\* One pass of the loop of StratifiedShuffleSplit._iter_indices: the
\* positions of class i are permuted, the first n_i[i] go to train and the
\* next t_i[i] to test.  st is [train, test, rs].
SplitClass(st, indices, n, t) ==
    Let(Permutation(indices, st.rs), LAMBDA p :
        [train |-> st.train \o SubSeq(p.vals, 1, n),
         test |-> st.test \o SubSeq(p.vals, n + 1, n + t),
         rs |-> p.rs])

RECURSIVE SplitClasses(_, _, _, _, _)
SplitClasses(i, class_indices, n_i, t_i, st) ==
    IF i > Len(class_indices) THEN st
    ELSE Let(SplitClass(st, class_indices[i], n_i[i], t_i[i]),
             LAMBDA st2 : SplitClasses(i + 1, class_indices, n_i, t_i, st2))

SplitRaise(e, s) ==
    [ok |-> FALSE, err |-> e, X_treino |-> EmptyFrame, X_teste |-> EmptyFrame,
     y_treino |-> EmptySeries, y_teste |-> EmptySeries, rs |-> s]

\* The four parts cut out by the train and the test positions.
SplitOk(X, y, train, test, s) ==
    [ok |-> TRUE, err |-> "none",
     X_treino |-> Take(X, train), X_teste |-> Take(X, test),
     y_treino |-> TakeSeries(y, train), y_teste |-> TakeSeries(y, test), rs |-> s]

\* ShuffleSplit: stratify is left out, one permutation of all the rows is cut
\* into the test rows and the train rows.
ShuffleSplitUnstratified(X, y, s) ==
    IF Len(X.rows) = 0 \/ Len(X.rows) # Len(y.values) \/ NTrain(Len(X.rows)) = 0
    THEN SplitRaise("ValueError", s)
    ELSE Let(Permutation(RangeIndex(Len(X.rows)), s), LAMBDA p :
             SplitOk(X, y,
                     [i \in 1..NTrain(Len(X.rows)) |-> p.vals[NTest(Len(X.rows)) + i] + 1],
                     [i \in 1..NTest(Len(X.rows)) |-> p.vals[i] + 1], p.rs))

\* The body of the one split, for classes with counts (both ascending by
\* class): the train counts, the test counts out of what is left, the
\* per-class permutations and the two final permutations.
StratifiedIndices(yv, classes, counts, s) ==
    Let([i \in DOMAIN classes |-> SelectSeqIdx(yv, {classes[i]}, 1)], LAMBDA class_indices :
    Let(ApproximateMode(counts, NTrain(Len(yv)), s), LAMBDA n_i :
    Let(ApproximateMode([i \in DOMAIN counts |-> counts[i] - n_i.vals[i]],
                        NTest(Len(yv)), n_i.rs), LAMBDA t_i :
    Let(SplitClasses(1, class_indices, n_i.vals, t_i.vals,
                     [train |-> <<>>, test |-> <<>>, rs |-> t_i.rs]), LAMBDA parts :
    Let(Permutation(parts.train, parts.rs), LAMBDA train :
    Let(Permutation(parts.test, train.rs), LAMBDA test :
        [train |-> train.vals, test |-> test.vals, rs |-> test.rs]))))))

\* train_test_split(X, y, test_size=0.3, random_state=..., stratify=y) with the
\* generator in state s: the checks of StratifiedShuffleSplit, then its split.
StratifiedSplit(X, y, s) ==
    Let(SortAsc(Range(y.values)), LAMBDA classes :
    Let([i \in DOMAIN classes |-> Count(y.values, classes[i])], LAMBDA counts :
        IF Len(X.rows) = 0 \/ Len(X.rows) # Len(y.values) \/ NTrain(Len(X.rows)) = 0
        THEN SplitRaise("ValueError", s)
        ELSE IF \E i \in DOMAIN counts : counts[i] < 2 THEN SplitRaise("ValueError", s)
        ELSE IF NTrain(Len(X.rows)) < Len(classes) \/ NTest(Len(X.rows)) < Len(classes)
             THEN SplitRaise("ValueError", s)
        ELSE Let(StratifiedIndices(y.values, classes, counts, s), LAMBDA ix :
                 SplitOk(X, y, ix.train, ix.test, ix.rs))))

\* X_treino, X_teste, y_treino, y_teste = train_test_split(X_res, y_res, ...)
train_test_split(X, y, s) == StratifiedSplit(X, y, s)

\* --------------------------------------------------------------- train.py

VARIABLES
    raw,            \* the content of dataset/bs140513_032310.csv
    generator,      \* the entropy numpy's global generator was seeded with
    dirs,           \* the directories that exist in the working directory
    np_global,      \* the state of numpy's global generator
    pc,             \* the statement the script is at
    error,          \* the exception that ended the run, and where
    bound,          \* the names assigned so far
    dados, dados_reduzidos, X, y, X_res, y_res,
    X_treino, X_teste, y_treino, y_teste, colunas_caracteristicas,
    calls,          \* what each invocation of pre_processar_dados returned
    modelos_treinados,
    files,          \* the files on disk: path -> content
    app_pc,         \* app.py: not started, serving, or exited at startup
    diagnostic,     \* the file named by the startup message
    resultados_modelo,  \* the registry: (nome, modelo) pairs in dict order
    seletor_modelo, \* the value of 'seletor-modelo-dropdown' in the browser
    dropdown_importancia,   \* the value of 'dropdown-importancia-caracteristica'
    changes,        \* how many times the user changed each dropdown
    runs,           \* how many times each callback has run
    requests,       \* callback requests sent by the browser, not yet served
    figures,        \* the 'figure' property of the graphs
    callback_error  \* the exception of the last callback served, if any

env == <<raw, generator, dirs>>
locals == <<dados, dados_reduzidos, X, y, X_res, y_res>>
returned == <<X_treino, X_teste, y_treino, y_teste, colunas_caracteristicas>>
training == <<modelos_treinados, files>>
app == <<app_pc, diagnostic, resultados_modelo, seletor_modelo, dropdown_importancia,
         changes, runs, requests, figures, callback_error>>

\* SMOTE() with no random_state: numpy's global generator is used.
RandomStateNone == <<>>
\* sm = SMOTE(random_state=42)
SmoteRandomState == <<42>>
\* train_test_split(..., random_state=42, ...)
SplitRandomState == <<42>>

NoError == [at |-> "none", kind |-> "none"]

\* Names are kept as their words and separators, so that replace(" ", "_")
\* and the paths built from a name are computed, not assumed.
modelos_a_treinar ==
    << [nome |-> <<"Classificador", " ", "K-Neighbors">>, kind |-> "KNeighborsClassifier"],
       [nome |-> <<"Classificador", " ", "Random", " ", "Forest">>,
        kind |-> "RandomForestClassifier"],
       [nome |-> <<"Classificador", " ", "XGBoost">>, kind |-> "XGBClassifier"] >>

\* nome.replace(" ", "_")
Replace(str, old, new) == [i \in DOMAIN str |-> IF str[i] = old THEN new ELSE str[i]]

\* The model's name as it is, spaces kept.
ModelPathKeepSpaces(nome) == <<"models/">> \o nome \o <<".pkl">>

\* f'models/{nome.replace(" ", "_")}.pkl'
ModelPath(nome) == <<"models/">> \o Replace(nome, " ", "_") \o <<".pkl">>

\* joblib.dump(obj, path): the file is created or overwritten.
Dump(fs, path, obj) ==
    [q \in DOMAIN fs \cup {path} |-> IF q = path THEN obj ELSE fs[q]]

\* What a fitted forest or boosted-trees classifier does with a row; fit
\* picks one (the tree-learning algorithms themselves are not modelled).
\* The k-neighbours classifier is computed: see Fit and Neighbors.
PredictorRules == {"first_class", "last_class", "by_amount"}

NoFiles == [q \in {} |-> EmptyFrame]

\* The directories the two scripts write to and read from; neither script
\* creates one.
Directories == {"models/", "data/"}

\* The directory of a path written by joblib.dump.
DirOf(path) == IF path[1] = "models/" THEN "models/" ELSE "data/"

\* joblib.dump opens the file for writing: FileNotFoundError when its
\* directory does not exist.
DumpRaises(path, ds) == DirOf(path) \notin ds

\* The path both scripts read the dataset from.
DatasetPath == <<"dataset/bs140513_032310.csv">>

NoFigure == [drawn |-> FALSE]

\* The graphs of the layout, by id.
Graphs ==
    {"boxplot-valor", "histograma-valor", "barra-fraude-categoria", "barra-fraude-idade",
     "barra-metricas-modelo", "matriz-confusao", "curva-roc",
     "grafico-importancia-caracteristica"}

NoFigures == [g \in Graphs |-> NoFigure]

\* The callbacks registered with @app.callback, in the order of the file.
CallbackNames ==
    <<"atualizar_boxplot_valor", "atualizar_histograma_valor",
      "atualizar_barra_fraude_categoria", "atualizar_barra_fraude_idade",
      "atualizar_barra_metricas_modelo", "atualizar_matriz_confusao_roc",
      "atualizar_importancia_caracteristica">>

\* The two dropdowns of the layout, by id.
Dropdowns == {"seletor-modelo-dropdown", "dropdown-importancia-caracteristica"}

\* app.py has not been started.
AppNotStarted ==
    /\ app_pc = "start"
    /\ diagnostic = <<>>
    /\ resultados_modelo = <<>>
    /\ seletor_modelo = <<>>
    /\ dropdown_importancia = <<>>
    /\ changes = [d \in Dropdowns |-> 0]
    /\ runs = [c \in Range(CallbackNames) |-> 0]
    /\ requests = <<>>
    /\ figures = NoFigures
    /\ callback_error = "none"

InitTrain ==
    /\ \E n0 \in 0..MaxClassRows, n1 \in 0..MaxClassRows,
          hasOri \in BOOLEAN, hasMer \in BOOLEAN, pal \in Palettes, mixed \in BOOLEAN :
            raw = RawFrame(n0, n1, hasOri, hasMer, pal, mixed)
    /\ generator \in 1..NumGenerators
    /\ dirs \in SUBSET Directories
    /\ np_global = GlobalRandomState(generator)
    /\ pc = "read_csv"
    /\ error = NoError
    /\ bound = {}
    /\ dados = EmptyFrame /\ dados_reduzidos = EmptyFrame
    /\ X = EmptyFrame /\ y = EmptySeries
    /\ X_res = EmptyFrame /\ y_res = EmptySeries
    /\ X_treino = EmptyFrame /\ X_teste = EmptyFrame
    /\ y_treino = EmptySeries /\ y_teste = EmptySeries
    /\ colunas_caracteristicas = <<>>
    /\ calls = <<>>
    /\ modelos_treinados = <<>>
    /\ files = Dump(NoFiles, DatasetPath, raw)
    /\ AppNotStarted

\* An exception is not caught anywhere in train.py: the script ends.
Fail(step, kind) ==
    /\ pc' = "failed"
    /\ error' = [at |-> step, kind |-> kind]

\* Line 11: dados = pd.read_csv(caminho_dados)
ReadCsv ==
    /\ pc = "read_csv"
    /\ dados' = files[DatasetPath]
    /\ bound' = bound \cup {"dados"}
    /\ pc' = "drop"
    /\ UNCHANGED <<env, np_global, error, dados_reduzidos, X, y, X_res, y_res,
                   returned, calls, training, app>>

\* Line 12: dados_reduzidos = dados.drop(['zipcodeOri', 'zipMerchant'], axis=1)
DropZip ==
    /\ pc = "drop"
    /\ \E r \in {Drop(dados, ZipColumns)} :
           IF r.ok
           THEN /\ dados_reduzidos' = r.val
                /\ bound' = bound \cup {"dados_reduzidos"}
                /\ pc' = "encode"
                /\ UNCHANGED error
           ELSE /\ Fail("drop", r.err)
                /\ UNCHANGED <<dados_reduzidos, bound>>
    /\ UNCHANGED <<env, np_global, dados, X, y, X_res, y_res, returned, calls, training, app>>

\* Lines 13-16: the object columns are replaced by their category codes.
Encode ==
    /\ pc = "encode"
    /\ dados_reduzidos' = EncodeCategoricals(dados_reduzidos)
    /\ bound' = bound \cup {"colunas_categoricas"}
    /\ pc' = "split_xy"
    /\ UNCHANGED <<env, np_global, error, dados, X, y, X_res, y_res,
                   returned, calls, training, app>>

\* Lines 17-18: X = dados_reduzidos.drop(['fraud'], axis=1); y = dados_reduzidos['fraud']
SplitXy ==
    /\ pc = "split_xy"
    /\ \E r \in {DropTarget(dados_reduzidos, <<"fraud">>)} :
           IF r.ok
           THEN /\ X' = r.val
                /\ y' = Column(dados_reduzidos, "fraud")
                /\ bound' = bound \cup {"X", "y"}
                /\ pc' = "smote"
                /\ UNCHANGED error
           ELSE /\ Fail("split_xy", r.err)
                /\ UNCHANGED <<X, y, bound>>
    /\ UNCHANGED <<env, np_global, dados, dados_reduzidos, X_res, y_res,
                   returned, calls, training, app>>

\* Lines 19-20: sm = SMOTE(random_state=42); X_res, y_res = sm.fit_resample(X, y)
Smote ==
    /\ pc = "smote"
    /\ \E r \in {fit_resample(X, y, SmoteRandomState, np_global)} :
           /\ np_global' = r.global
           /\ IF r.ok
              THEN /\ X_res' = r.X
                   /\ y_res' = r.y
                   /\ bound' = bound \cup {"X_res", "y_res"}
                   /\ pc' = "split"
                   /\ UNCHANGED error
              ELSE /\ Fail("smote", r.err)
                   /\ UNCHANGED <<X_res, y_res, bound>>
    /\ UNCHANGED <<env, dados, dados_reduzidos, X, y, returned, calls, training, app>>

\* The frame and target as they were before oversampling.
SplitInputRaw == [X |-> X, y |-> y]

\* The frame and target handed to train_test_split: the oversampled ones.
SplitInput == [X |-> X_res, y |-> y_res]

\* Lines 21-24: the stratified split, and the return of the five results.
TrainTestSplit ==
    /\ pc = "split"
    /\ \E r \in {train_test_split(SplitInput.X, SplitInput.y,
                    check_random_state(SplitRandomState, np_global))} :
           /\ np_global' = GlobalAfter(SplitRandomState, np_global, r.rs)
           /\ IF r.ok
              THEN /\ X_treino' = r.X_treino
                   /\ X_teste' = r.X_teste
                   /\ y_treino' = r.y_treino
                   /\ y_teste' = r.y_teste
                   /\ colunas_caracteristicas' = X.columns
                   /\ calls' = Append(calls, <<r.X_treino, r.X_teste, r.y_treino,
                                               r.y_teste, X.columns>>)
                   /\ bound' = bound \cup {"X_treino", "X_teste", "y_treino", "y_teste",
                                           "colunas_caracteristicas"}
                   /\ pc' = "fit"
                   /\ UNCHANGED error
              ELSE /\ Fail("split", r.err)
                   /\ UNCHANGED <<returned, calls, bound>>
    /\ UNCHANGED <<env, locals, training, app>>

\* modelo.fit(X_treino, y_treino.values.ravel()): the fitted classifier keeps
\* the classes it saw and the number of rows it was fitted on.
\* modelos_treinados[nome] = modelo on a dict kept as its (nome, modelo)
\* pairs in insertion order: a new name is added at the end, a name already
\* there keeps its place and gets the new model. It never raises.
SetItem(d, nome, modelo) ==
    IF \E i \in DOMAIN d : d[i].nome = nome
    THEN [i \in DOMAIN d |->
            IF d[i].nome = nome THEN [nome |-> nome, modelo |-> modelo] ELSE d[i]]
    ELSE Append(d, [nome |-> nome, modelo |-> modelo])

\* The k-neighbours classifier also keeps the rows and labels it was fitted
\* on, by which it predicts; what the trees of the other two learn is one
\* of PredictorRules.
Fit(kind, rule, Xt, yt) ==
    [kind |-> kind, classes |-> SortAsc(Range(yt.values)),
     n_fit |-> Len(Xt.rows), feature_names_in |-> Xt.columns,
     rule |-> IF kind = "KNeighborsClassifier" THEN "neighbors" ELSE rule,
     fit_X |-> IF kind = "KNeighborsClassifier" THEN Xt.rows ELSE <<>>,
     fit_y |-> IF kind = "KNeighborsClassifier" THEN yt.values ELSE <<>>]

\* Lines 35-41: one iteration of the loop: fit, keep, persist.  When models/
\* does not exist the dump of line 40 raises after line 38 has kept the
\* model, and the script ends.
FitAndSave ==
    /\ pc = "fit"
    /\ Len(modelos_treinados) < Len(modelos_a_treinar)
    /\ \E rule \in PredictorRules :
         LET m == modelos_a_treinar[Len(modelos_treinados) + 1]
             modelo == Fit(m.kind, rule, X_treino, y_treino)
         IN  /\ modelos_treinados' = SetItem(modelos_treinados, m.nome, modelo)
             /\ IF DumpRaises(ModelPath(m.nome), dirs)
                THEN /\ Fail("dump_model", "FileNotFoundError")
                     /\ UNCHANGED files
                ELSE /\ files' = Dump(files, ModelPath(m.nome), modelo)
                     /\ pc' = IF Len(modelos_treinados) + 1 = Len(modelos_a_treinar)
                              THEN "dump_X" ELSE "fit"
                     /\ UNCHANGED error
    /\ UNCHANGED <<env, np_global, bound, locals, returned, calls, app>>

\* joblib.dump(obj, path) at step: the file is written and the script goes on
\* to the step after, or the dump raises and the script ends.
DumpOrFail(step, path, obj, after) ==
    IF DumpRaises(path, dirs)
    THEN /\ Fail(step, "FileNotFoundError")
         /\ UNCHANGED files
    ELSE /\ files' = Dump(files, path, obj)
         /\ pc' = after
         /\ UNCHANGED error

\* Line 44: joblib.dump(X_teste, 'data/X_test.pkl')
DumpXTest ==
    /\ pc = "dump_X"
    /\ DumpOrFail("dump_X", <<"data/X_test.pkl">>, X_teste, "dump_y")
    /\ UNCHANGED <<env, np_global, bound, locals, returned, calls, modelos_treinados, app>>

\* Line 45: joblib.dump(y_teste, 'data/y_test.pkl')
DumpYTest ==
    /\ pc = "dump_y"
    /\ DumpOrFail("dump_y", <<"data/y_test.pkl">>, y_teste, "dump_cols")
    /\ UNCHANGED <<env, np_global, bound, locals, returned, calls, modelos_treinados, app>>

\* Line 46: joblib.dump(colunas_caracteristicas, 'data/feature_columns.pkl')
DumpColumns ==
    /\ pc = "dump_cols"
    /\ DumpOrFail("dump_cols", <<"data/feature_columns.pkl">>, colunas_caracteristicas,
                  "done")
    /\ UNCHANGED <<env, np_global, bound, locals, returned, calls, modelos_treinados, app>>

vars == <<raw, generator, dirs, np_global, pc, error, bound, dados, dados_reduzidos, X, y,
          X_res, y_res, X_treino, X_teste, y_treino, y_teste, colunas_caracteristicas,
          calls, modelos_treinados, files, app>>

PreProcessar == ReadCsv \/ DropZip \/ Encode \/ SplitXy \/ Smote \/ TrainTestSplit

Next == PreProcessar \/ FitAndSave \/ DumpXTest \/ DumpYTest \/ DumpColumns

\* One run of train.py.
Spec == InitTrain /\ [][Next]_vars

\* ------------------------------------------- repeated calls of the function

\* pre_processar_dados is called again on the same source, later in the
\* process: a new frame of locals and the same file, while numpy's global
\* generator has moved on by the draws other code made in between.
CallAgain ==
    /\ pc = "fit"
    /\ Len(calls) < MaxCalls
    /\ pc' = "read_csv"
    /\ bound' = {}
    /\ dados' = EmptyFrame /\ dados_reduzidos' = EmptyFrame
    /\ X' = EmptyFrame /\ y' = EmptySeries
    /\ X_res' = EmptyFrame /\ y_res' = EmptySeries
    /\ \E k \in 1..MaxDraws : np_global' = StateAfter(np_global, k)
    /\ UNCHANGED <<env, error, returned, calls, training, app>>

NextRepeat == PreProcessar \/ CallAgain

\* pre_processar_dados called up to MaxCalls times in one process.
SpecRepeat == InitTrain /\ [][NextRepeat]_vars

\* ------------------------------------------------------------------ claims

\* The rows of the raw file with fraud = v.
RawCount(v) == Count(Column(raw, "fraud").values, v)

ZipPresent == Range(ZipColumns) \subseteq Range(raw.columns)

\* pre_processar_dados has returned.
Returned == "X_treino" \in bound

SyntheticRows == "X_res" \in bound /\ Len(X_res.rows) > Len(X.rows)

\* C1: once the SMOTE step has produced y_res, y_res holds exactly as many
\* rows with fraud=1 as rows with fraud=0.
C1_Balanced ==
    "y_res" \in bound => Count(y_res.values, 1) = Count(y_res.values, 0)

C1_Witness ==
    /\ Returned
    /\ SyntheticRows
    /\ Count(y_res.values, 1) = Count(y_res.values, 0)

NoDuplicates(s) == Cardinality(Range(s)) = Len(s)

\* C2: at every stage the feature table and the target have the same number
\* of rows under the same labels, and the train and test parts are a partition
\* of the rows of X_res: the sizes add up, no label is in both parts or twice
\* in one, and each row is the row X_res holds under its label.
C2_RowCounts ==
    /\ "X" \in bound => Len(X.rows) = Len(y.values) /\ X.index = y.index
    /\ "X_res" \in bound => Len(X_res.rows) = Len(y_res.values) /\ X_res.index = y_res.index
    /\ Returned =>
        /\ Len(X_treino.rows) = Len(y_treino.values) /\ X_treino.index = y_treino.index
        /\ Len(X_teste.rows) = Len(y_teste.values) /\ X_teste.index = y_teste.index
        /\ Len(X_treino.rows) + Len(X_teste.rows) = Len(X_res.rows)
        /\ Len(X_res.rows) = Len(y_res.values)
        /\ NoDuplicates(X_treino.index \o X_teste.index)
        /\ Range(X_treino.index \o X_teste.index) = Range(X_res.index)
        /\ \A i \in DOMAIN X_treino.rows :
              /\ X_treino.rows[i] = X_res.rows[X_treino.index[i] + 1]
              /\ y_treino.values[i] = y_res.values[X_treino.index[i] + 1]
        /\ \A i \in DOMAIN X_teste.rows :
              /\ X_teste.rows[i] = X_res.rows[X_teste.index[i] + 1]
              /\ y_teste.values[i] = y_res.values[X_teste.index[i] + 1]

C2_Witness ==
    /\ Returned
    /\ SyntheticRows
    /\ Len(X_treino.rows) + Len(X_teste.rows) = Len(X_res.rows)
    /\ Len(X_teste.rows) >= 4

\* C3: after the stratified split the two classes differ by at most one row
\* in the train part and in the test part, so the share of fraud=1 rows in
\* y_treino and in y_teste differ by at most (1/len(y_treino) + 1/len(y_teste))/2.
C3_Stratified ==
    Returned =>
        /\ Abs(Count(y_treino.values, 1) - Count(y_treino.values, 0)) <= 1
        /\ Abs(Count(y_teste.values, 1) - Count(y_teste.values, 0)) <= 1
        /\ 2 * Abs(Count(y_treino.values, 1) * Len(y_teste.values)
                   - Count(y_teste.values, 1) * Len(y_treino.values))
              <= Len(y_treino.values) + Len(y_teste.values)

C3_Witness ==
    /\ Returned
    /\ Count(y_treino.values, 1) = Count(y_treino.values, 0) + 1
    /\ Count(y_teste.values, 0) = Count(y_teste.values, 1) + 1

\* The run is over: the function returned or an exception ended the script.
Ended == pc \in {"failed", "fit", "dump_X", "dump_y", "dump_cols", "done"}

\* The outcome the 10-row scenario names: 16 balanced rows, 5 test rows with
\* 2 or 3 of each class.
ScenarioOutcome ==
    /\ Returned
    /\ Len(X_res.rows) = 16 /\ Len(y_res.values) = 16
    /\ Count(y_res.values, 0) = 8 /\ Count(y_res.values, 1) = 8
    /\ Len(X_teste.rows) = 5 /\ Len(y_teste.values) = 5
    /\ Count(y_teste.values, 0) \in {2, 3} /\ Count(y_teste.values, 1) \in {2, 3}

\* C4 as claimed: on a 10-row dataset with 8 rows of fraud=0 and 2 of fraud=1
\* the pipeline completes with 16 balanced rows and a test part of 5 rows,
\* 2 or 3 of each class.
C4_AsClaimed ==
    (ZipPresent /\ RawCount(0) = 8 /\ RawCount(1) = 2 /\ Ended) => ScenarioOutcome

\* C4 as amended: the 8/2 dataset fails at the SMOTE step (2 rows are fewer
\* than the 6 that 5 neighbours need) and returns no split; with 8 rows of
\* fraud=0 and 6 of fraud=1 the pipeline completes with 16 balanced rows and a
\* test part of 5 rows, 2 or 3 of each class.
C4_Amended ==
    /\ (ZipPresent /\ RawCount(0) = 8 /\ RawCount(1) = 2 /\ Ended) =>
          pc = "failed" /\ error.at = "smote" /\ ~Returned /\ calls = <<>>
    /\ (ZipPresent /\ RawCount(0) = 8 /\ RawCount(1) = 6 /\ Ended) => ScenarioOutcome

C4_Witness ==
    ZipPresent /\ RawCount(0) = 8 /\ RawCount(1) = 6 /\ pc = "done" /\ ScenarioOutcome

\* The smaller class of y has fewer rows than the neighbour count.
MinorityTooSmall ==
    \E c \in {0, 1} :
        /\ Count(y.values, c) < Count(y.values, 1 - c)
        /\ Count(y.values, c) < k_neighbors

\* Nothing was returned, kept or written: the dataset is the only file.
NothingProduced ==
    /\ ~Returned /\ calls = <<>>
    /\ modelos_treinados = <<>>
    /\ DOMAIN files = {DatasetPath}

\* C5: when the minority class has fewer rows than the neighbour count, the
\* SMOTE step ends the run with an error: no X_res, no split is returned and
\* no artifact is written.
C5_TooFewSamples ==
    ("y" \in bound /\ pc # "smote" /\ MinorityTooSmall) =>
        /\ pc = "failed"
        /\ error = [at |-> "smote", kind |-> "ValueError"]
        /\ "X_res" \notin bound
        /\ NothingProduced

C5_Witness ==
    /\ pc = "failed" /\ error.at = "smote"
    /\ Count(y.values, 1) = k_neighbors - 1
    /\ Count(y.values, 0) > Count(y.values, 1)
    /\ NothingProduced

\* C6: every call of pre_processar_dados on the same source returns the same
\* five results as the first: same rows, same order, same values.
C6_Deterministic ==
    \A i \in DOMAIN calls : calls[i] = calls[1]

\* The second call, made with the global generator in another state than
\* the first call found it in, returned what the first returned, synthetic
\* rows included.
C6_Witness ==
    /\ Len(calls) >= 2
    /\ SyntheticRows
    /\ np_global # GlobalRandomState(generator)
    /\ calls[2] = calls[1]

\* The table of line 12, before the encoding of lines 13-16 touched it.
PostDrop == WithoutColumns(dados, Range(ZipColumns))

\* C7 as claimed: after the encoding, in every object column of the post-drop
\* table equal values have equal codes and distinct values distinct codes,
\* and the codes written are exactly 0..k-1 for k distinct observed values.
C7_AsClaimed ==
    "colunas_categoricas" \in bound =>
        \A col \in Range(select_dtypes_object(PostDrop)) :
            /\ \A i, j \in DOMAIN PostDrop.rows :
                  (PostDrop.rows[i][col] = PostDrop.rows[j][col])
                    <=> (dados_reduzidos.rows[i][col] = dados_reduzidos.rows[j][col])
            /\ {dados_reduzidos.rows[i][col] : i \in DOMAIN dados_reduzidos.rows}
                  = 0..(Cardinality(Categories(PostDrop, col)) - 1)

\* C8 as claimed: dropping the two zip columns again from the table they were
\* dropped from succeeds and changes nothing, in either order of the names.
C8_AsClaimed ==
    "dados_reduzidos" \in bound =>
        /\ Drop(dados_reduzidos, ZipColumns) = Ok(dados_reduzidos)
        /\ Drop(dados_reduzidos, <<ZipColumns[2], ZipColumns[1]>>) = Ok(dados_reduzidos)

\* C8 as amended: the drop does not depend on the order of the two names (the
\* same table, or a KeyError in both orders), its result holds neither
\* column, and dropping the two columns again from that result raises KeyError
\* instead of succeeding.
C8_Amended ==
    /\ "dados" \in bound =>
          Drop(dados, ZipColumns) = Drop(dados, <<ZipColumns[2], ZipColumns[1]>>)
    /\ "dados_reduzidos" \in bound =>
          /\ Range(dados_reduzidos.columns) \cap Range(ZipColumns) = {}
          /\ Range(dados_reduzidos.columns) = Range(dados.columns) \ Range(ZipColumns)
          /\ Drop(dados_reduzidos, ZipColumns) = Raise("KeyError")
          /\ Drop(dados_reduzidos, <<ZipColumns[2], ZipColumns[1]>>) = Raise("KeyError")

C8_Witness ==
    /\ pc = "encode"
    /\ Len(dados_reduzidos.rows) > 0
    /\ Len(dados_reduzidos.columns) = Len(dados.columns) - 2

\* C9: when zipcodeOri or zipMerchant is missing from the raw table, the run
\* ends with a KeyError at the drop step: nothing after line 12 is assigned,
\* nothing is returned and no artifact is written.
C9_MissingZipColumn ==
    (~ZipPresent /\ pc \notin {"read_csv", "drop"}) =>
        /\ pc = "failed"
        /\ error = [at |-> "drop", kind |-> "KeyError"]
        /\ bound = {"dados"}
        /\ NothingProduced

C9_Witness ==
    /\ pc = "failed" /\ error.at = "drop"
    /\ "zipcodeOri" \in Range(dados.columns)
    /\ "zipMerchant" \notin Range(dados.columns)
    /\ Len(dados.rows) > 0
    /\ NothingProduced

\* ----------------------------------------------------------------- app.py

\* Requests the browser may have sent that the server has not yet served.
MaxPending == 1

\* KNeighborsClassifier(n_neighbors=5, p=1)
n_neighbors == 5

PreRaise(step, e) ==
    [ok |-> FALSE, at |-> step, err |-> e,
     X_treino |-> EmptyFrame, X_teste |-> EmptyFrame,
     y_treino |-> EmptySeries, y_teste |-> EmptySeries, colunas |-> <<>>]

\* pre_processar_dados as one function of the table read from the file: the
\* steps of lines 12-24 in order, ended by the first that raises.
pre_processar_dados(df, global) ==
    Let(Drop(df, ZipColumns), LAMBDA dr :
        IF ~dr.ok THEN PreRaise("drop", dr.err)
        ELSE
    Let(EncodeCategoricals(dr.val), LAMBDA enc :
    Let(DropTarget(enc, <<"fraud">>), LAMBDA xr :
        IF ~xr.ok THEN PreRaise("split_xy", xr.err)
        ELSE
    Let(fit_resample(xr.val, Column(enc, "fraud"), SmoteRandomState, global), LAMBDA sm :
        IF ~sm.ok THEN PreRaise("smote", sm.err)
        ELSE
    Let(train_test_split(sm.X, sm.y,
                         check_random_state(SplitRandomState, sm.global)), LAMBDA sp :
        IF ~sp.ok THEN PreRaise("split", sp.err)
        ELSE [ok |-> TRUE, at |-> "none", err |-> "none",
              X_treino |-> sp.X_treino, X_teste |-> sp.X_teste,
              y_treino |-> sp.y_treino, y_teste |-> sp.y_teste,
              colunas |-> xr.val.columns])))))

RECURSIVE FitAll(_, _, _, _)
\* The files after the first i iterations of the loop of lines 35-41, the
\* i-th classifier fitted to rule rules[i].
FitAll(i, rules, res, fs) ==
    IF i = 0 THEN fs
    ELSE Dump(FitAll(i - 1, rules, res, fs), ModelPath(modelos_a_treinar[i].nome),
              Fit(modelos_a_treinar[i].kind, rules[i], res.X_treino, res.y_treino))

\* The files a completed run of train.py leaves, beside the dataset it read.
TrainFiles(df, res, rules) ==
    Dump(Dump(Dump(FitAll(Len(modelos_a_treinar), rules, res, Dump(NoFiles, DatasetPath, df)),
                   <<"data/X_test.pkl">>, res.X_teste),
              <<"data/y_test.pkl">>, res.y_teste),
         <<"data/feature_columns.pkl">>, res.colunas)

\* The files without one of them.
Remove(fs, path) == [q \in DOMAIN fs \ {path} |-> fs[q]]

\* The class sizes of the datasets the dashboard is started on: small
\* balanced ones, and the largest majority with the smallest minority SMOTE
\* accepts.
ServeClassRows ==
    {<<n, n>> : n \in 2..4} \cup {<<MaxClassRows, k_neighbors + 1>>}

\* The three rules in each of their rotations over the three classifiers
\* (the rule at the place of the k-neighbours classifier has no effect on
\* it).
RotatedRules ==
    {[i \in 1..Len(modelos_a_treinar) |->
        <<"first_class", "last_class", "by_amount">>[((i + k) % 3) + 1]] : k \in 0..2}

\* The rules the classifiers were fitted to, in the runs the dashboard is
\* started on: all the same rule, or the three rules in a rotation.
ServeRules ==
    {[i \in 1..Len(modelos_a_treinar) |-> r] : r \in PredictorRules} \cup RotatedRules

\* The files app.py reads at startup, in the order it reads them.
LoadOrder ==
    << DatasetPath, <<"data/X_test.pkl">>, <<"data/y_test.pkl">>,
       <<"data/feature_columns.pkl">>,
       <<"models/", "Classificador", "_", "K-Neighbors", ".pkl">>,
       <<"models/", "Classificador", "_", "Random", "_", "Forest", ".pkl">>,
       <<"models/", "Classificador", "_", "XGBoost", ".pkl">> >>

\* The names the registry of lines 29-33 gives to the three model files.
RegistryNames ==
    << <<"Classificador", " ", "K-Neighbors">>,
       <<"Classificador", " ", "Random", " ", "Forest">>,
       <<"Classificador", " ", "XGBoost">> >>

\* value='Classificador XGBoost' of 'seletor-modelo-dropdown'
SeletorInicial == <<"Classificador", " ", "XGBoost">>

\* The process of train.py is gone, and with it the names it had bound; the
\* process of app.py has not started.
TrainingOver ==
    /\ pc = "done"
    /\ error = NoError
    /\ bound = {}
    /\ dados = EmptyFrame /\ dados_reduzidos = EmptyFrame
    /\ X = EmptyFrame /\ y = EmptySeries
    /\ X_res = EmptyFrame /\ y_res = EmptySeries
    /\ X_treino = EmptyFrame /\ X_teste = EmptyFrame
    /\ y_treino = EmptySeries /\ y_teste = EmptySeries
    /\ colunas_caracteristicas = <<>>
    /\ calls = <<>>
    /\ modelos_treinados = <<>>
    /\ AppNotStarted

\* train.py has run to its end on some dataset, and possibly one of the files
\* app.py reads was removed since; app.py is about to start.
InitServe ==
    /\ \E cr \in ServeClassRows, g \in 1..NumGenerators :
         \E df \in {RawFrame(cr[1], cr[2], TRUE, TRUE, <<NumCat, 1>>, TRUE)} :
         \E res \in {pre_processar_dados(df, GlobalRandomState(g))} :
            /\ res.ok
            /\ raw = df
            /\ generator = g
            /\ dirs = Directories
            /\ np_global = GlobalRandomState(g)
            /\ \E rules \in ServeRules, gone \in {<<>>} \cup Range(LoadOrder) :
                  files = Remove(TrainFiles(df, res, rules), gone)
    /\ TrainingOver

\* pd.DataFrame(X_teste_bruto, columns=colunas): the frame's columns named in
\* colunas, in that order; a name the frame lacks becomes a column of NaN.
DataFrameWithColumns(df, colunas) ==
    [columns |-> colunas,
     dtypes |-> [c \in Range(colunas) |->
                   IF c \in Range(df.columns) THEN df.dtypes[c] ELSE "float64"],
     index |-> df.index,
     rows |-> [i \in DOMAIN df.rows |->
                 [c \in Range(colunas) |->
                    IF c \in Range(df.columns) THEN df.rows[i][c] ELSE NaN]]]

\* The content of a file joblib.dump has opened for writing and not written:
\* no bytes.
Truncated == [bytes |-> <<>>]

\* The first file of LoadOrder that is not on disk (0: none is missing).
FirstMissing(fs) ==
    IF \A i \in DOMAIN LoadOrder : LoadOrder[i] \in DOMAIN fs THEN 0
    ELSE CHOOSE i \in DOMAIN LoadOrder :
            /\ LoadOrder[i] \notin DOMAIN fs
            /\ \A j \in 1..(i - 1) : LoadOrder[j] \in DOMAIN fs

\* The first file of LoadOrder that the loads of lines 22-28 cannot read,
\* being absent or without its content (0: every file is read).
FirstUnreadable(fs) ==
    IF \A i \in DOMAIN LoadOrder : LoadOrder[i] \in DOMAIN fs /\ fs[LoadOrder[i]] # Truncated
    THEN 0
    ELSE CHOOSE i \in DOMAIN LoadOrder :
            /\ LoadOrder[i] \notin DOMAIN fs \/ fs[LoadOrder[i]] = Truncated
            /\ \A j \in 1..(i - 1) :
                  LoadOrder[j] \in DOMAIN fs /\ fs[LoadOrder[j]] # Truncated

\* The handler prints the message and the script goes on to the layout.
PrintAndGoOn == "serving"

\* Lines 34-36: except FileNotFoundError: print(...); exit()
OnFileNotFound == "exited"

\* Lines 21-36: the files are loaded in order. The first one that is absent
\* raises FileNotFoundError, which is printed, and the process exits; the
\* first one that is there without its content makes joblib.load raise
\* EOFError, which line 34 does not catch: the script ends on the traceback,
\* with no message printed and exit() not called. Else the registry is built
\* and the script goes on to the layout.
Startup ==
    /\ app_pc = "start"
    /\ IF FirstUnreadable(files) # 0 /\ FirstUnreadable(files) = FirstMissing(files)
       THEN /\ app_pc' = OnFileNotFound
            /\ diagnostic' = LoadOrder[FirstMissing(files)]
            /\ UNCHANGED <<dados, X_teste, y_teste, colunas_caracteristicas,
                           resultados_modelo>>
       ELSE IF FirstUnreadable(files) # 0
       THEN /\ app_pc' = "crashed"
            /\ UNCHANGED <<diagnostic, dados, X_teste, y_teste, colunas_caracteristicas,
                           resultados_modelo>>
       ELSE /\ app_pc' = "serving"
            /\ dados' = files[LoadOrder[1]]
            /\ X_teste' = DataFrameWithColumns(files[LoadOrder[2]], files[LoadOrder[4]])
            /\ y_teste' = files[LoadOrder[3]]
            /\ colunas_caracteristicas' = files[LoadOrder[4]]
            /\ resultados_modelo' =
                  [i \in DOMAIN RegistryNames |->
                     [nome |-> RegistryNames[i], modelo |-> files[LoadOrder[4 + i]]]]
            /\ UNCHANGED diagnostic
    /\ UNCHANGED <<env, np_global, pc, error, bound, dados_reduzidos, X, y, X_res, y_res,
                   X_treino, y_treino, calls, training,
                   seletor_modelo, dropdown_importancia, changes, runs, requests, figures,
                   callback_error>>

\* resultados_modelo.keys()
Keys(registry) == [i \in DOMAIN registry |-> registry[i].nome]

\* resultados_modelo.get(nome, <the first model>): never a KeyError.
LookupOrFirst(registry, nome) ==
    IF nome \in Range(Keys(registry))
    THEN CHOOSE i \in DOMAIN registry : registry[i].nome = nome
    ELSE Min(1, Len(registry))

\* resultados_modelo.pop(nome, None): the entry is taken out of the registry.
RegistryAfterPop(registry, nome) ==
    Let(SortAsc({i \in DOMAIN registry : registry[i].nome # nome}), LAMBDA kept :
        [k \in DOMAIN kept |-> registry[kept[k]]])

\* resultados_modelo[nome] reads the dict: the registry after it is the
\* registry before it, whether the name is found or not.
RegistryAfterLookup(registry, nome) == registry

\* resultados_modelo[nome]: the entry's position (0: none, an exception).
Lookup(registry, nome) ==
    IF nome \in Range(Keys(registry))
    THEN CHOOSE i \in DOMAIN registry : registry[i].nome = nome
    ELSE 0

\* A JSON array or object that a request carries in the place of a name
\* reaches the callback as a list or a dict; it is kept as its text.
EmptyList == <<"[", "]">>

ListOfName == <<"[", "Classificador", " ", "XGBoost", "]">>

EmptyDict == <<"{", "}">>

\* hash(nome): a list and a dict have none; a string and None have.
Hashable(nome) == nome = <<>> \/ nome[1] \notin {"[", "{"}

\* The exception of resultados_modelo[nome] for a nome that is no key: the
\* dict hashes nome first, TypeError (unhashable type), and then misses it,
\* KeyError.
LookupError(nome) == IF Hashable(nome) THEN "KeyError" ELSE "TypeError"

\* fabs(x1[j] - x2[j]) for two cells of a column of dtype: the rows are
\* float64 arrays, and the difference is rounded to a float64.
CellDistance(dtype, a, b) ==
    IF dtype = "float64" THEN Round53(FloatAbsDiff(a, b)) ELSE Float(Abs(a - b))

RECURSIVE Manhattan(_, _, _, _, _)
\* The distance of p=1 between two rows over the first n of the columns
\* cols: d += fabs(x1[j] - x2[j]) column after column, each sum rounded to
\* a float64.
Manhattan(r1, r2, cols, dtypes, n) ==
    IF n = 0 THEN Float(0)
    ELSE Round53(FloatAdd(CellDistance(dtypes[cols[n]], r1[cols[n]], r2[cols[n]]),
                          Manhattan(r1, r2, cols, dtypes, n - 1)))

RECURSIVE Distances(_, _, _, _)
\* The distances from the row at position i of df to the first n rows the
\* classifier was fitted on.
Distances(modelo, df, i, n) ==
    IF n = 0 THEN <<>>
    ELSE Append(Distances(modelo, df, i, n - 1),
                Manhattan(df.rows[i], modelo.fit_X[n], modelo.feature_names_in, df.dtypes,
                          Len(modelo.feature_names_in)))

\* kneighbors(row): the positions of the n_neighbors rows the classifier
\* was fitted on that are nearest the row at position i of df: those left
\* on the heap after the distances were pushed in the order of the rows.
Neighbors(modelo, df, i) ==
    Let(HeapOf(Distances(modelo, df, i, Len(modelo.fit_X)), Len(modelo.fit_X), n_neighbors),
        LAMBDA heap : {heap[p].idx : p \in DOMAIN heap})

\* How many of the rows at the positions nb the classifier was fitted on
\* have the label.
Votes(modelo, nb, label) == Cardinality({j \in nb : modelo.fit_y[j] = label})

\* The label a fitted classifier gives the row at position i of df, one of
\* the classes it saw: for the k-neighbours classifier the label of most of
\* the row's neighbours, the smaller label when two have as many.
PredictRow(modelo, df, i) ==
    CASE modelo.kind = "KNeighborsClassifier" ->
            Let(Neighbors(modelo, df, i), LAMBDA nb :
                CHOOSE c \in Range(modelo.classes) :
                    \A d \in Range(modelo.classes) :
                        \/ Votes(modelo, nb, d) < Votes(modelo, nb, c)
                        \/ Votes(modelo, nb, d) = Votes(modelo, nb, c) /\ c <= d)
      [] modelo.rule = "first_class" -> modelo.classes[1]
      [] modelo.rule = "last_class" -> modelo.classes[Len(modelo.classes)]
      [] OTHER -> IF Whole(df.dtypes["amount"], df.rows[i]["amount"]) >= 4 * GapDen
                  THEN modelo.classes[Len(modelo.classes)]
                  ELSE modelo.classes[1]

\* modelo.predict(X): a label per row; the k-neighbours classifier raises
\* when it was fitted on fewer rows than the neighbours it is to vote with.
Predict(modelo, df) ==
    IF modelo.kind = "KNeighborsClassifier" /\ modelo.n_fit < n_neighbors
    THEN [ok |-> FALSE, err |-> "ValueError", val |-> <<>>]
    ELSE [ok |-> TRUE, err |-> "none",
          val |-> [i \in DOMAIN df.rows |-> PredictRow(modelo, df, i)]]

\* hasattr(modelo, "predict_proba"): all three classifiers have it.
HasPredictProba(modelo) ==
    modelo.kind \in {"KNeighborsClassifier", "RandomForestClassifier", "XGBClassifier"}

\* The score a forest or a boosted-trees classifier gives its last class for
\* the row at position i of df, in tenths: the hinge objective of the
\* XGBoost classifier scores 0 or 1; the forest scores by degrees, above one
\* half where it predicts the class.
TreeProba(modelo, df, i) ==
    IF Len(modelo.classes) = 1 THEN 10
    ELSE IF modelo.rule = "by_amount" /\ modelo.kind # "XGBClassifier"
    THEN Min(10, (Whole(df.dtypes["amount"], df.rows[i]["amount"]) \div GapDen) + 2)
    ELSE IF PredictRow(modelo, df, i) = modelo.classes[Len(modelo.classes)]
         THEN 10 ELSE 0

\* modelo.predict_proba(X): a row per row of X and a column per class of
\* modelo.classes_, in that order, the scores in tenths. The k-neighbours
\* classifier scores a class by its share of the row's n_neighbors
\* neighbours; the trees give the first class what they do not give the
\* last. (A k-neighbours classifier fitted on fewer than n_neighbors rows
\* raises instead: see ScoresRoc.)
PredictProba(modelo, df) ==
    [i \in DOMAIN df.rows |->
        IF modelo.kind = "KNeighborsClassifier"
        THEN Let(Neighbors(modelo, df, i), LAMBDA nb :
                 [c \in DOMAIN modelo.classes |->
                    (10 * Votes(modelo, nb, modelo.classes[c])) \div n_neighbors])
        ELSE Let(TreeProba(modelo, df, i), LAMBDA s :
                 [c \in DOMAIN modelo.classes |->
                    IF c = Len(modelo.classes) THEN s
                    ELSE IF c = 1 THEN 10 - s ELSE 0])]

\* matrix[:, 1]
SecondColumn(matrix) == [i \in DOMAIN matrix |-> matrix[i][2]]

\* A classifier of scikit-learn that has decision_function and no
\* predict_proba, as a model file written by another script may hold.
LinearSVC == "LinearSVC"

\* hasattr(modelo, "decision_function"): none of the three classifiers of
\* train.py.
HasDecisionFunction(modelo) == modelo.kind = LinearSVC

\* modelo.decision_function(X): the signed distance of each row from the
\* boundary the classifier learnt (one of PredictorRules), positive where it
\* predicts its last class; AttributeError for the three classifiers of
\* train.py.
DecisionFunction(modelo, df) ==
    IF HasDecisionFunction(modelo)
    THEN [ok |-> TRUE, err |-> "none",
          val |-> [i \in DOMAIN df.rows |->
                     CASE modelo.rule = "first_class" -> -1
                       [] modelo.rule = "last_class" -> 1
                       [] OTHER ->
                            2 * (Whole(df.dtypes["amount"], df.rows[i]["amount"])
                                   - 4 * GapDen) + 1]]
    ELSE [ok |-> FALSE, err |-> "AttributeError", val |-> <<>>]

\* The scores are the hard predictions.
ScoresFromPredict(modelo, df) ==
    [ok |-> TRUE, err |-> "none",
     val |-> [i \in DOMAIN df.rows |->
                IF PredictRow(modelo, df, i) = modelo.classes[Len(modelo.classes)]
                THEN 10 ELSE 0]]

\* Lines 589-592: the scores of the ROC curve.
ScoresRoc(modelo, df) ==
    IF HasPredictProba(modelo)
    THEN IF modelo.kind = "KNeighborsClassifier" /\ modelo.n_fit < n_neighbors
         THEN [ok |-> FALSE, err |-> "ValueError", val |-> <<>>]
         ELSE IF Len(modelo.classes) < 2
         THEN [ok |-> FALSE, err |-> "IndexError", val |-> <<>>]
         ELSE [ok |-> TRUE, err |-> "none", val |-> SecondColumn(PredictProba(modelo, df))]
    ELSE DecisionFunction(modelo, df)

\* roc_curve(y_true, scores): one point per distinct score, the highest
\* first, counting the rows scored at least that much that are fraud (tps)
\* and that are not (fps); of the points between the first and the last
\* those are dropped that lie on a line with their two neighbours
\* (drop_intermediate); the point of no row is put in front.
RocCurve(y_true, scores) ==
    Let(SortDesc(Range(scores)), LAMBDA thresholds :
    Let([fps |-> [i \in DOMAIN thresholds |->
                    Cardinality({r \in DOMAIN y_true :
                                    y_true[r] # 1 /\ scores[r] >= thresholds[i]})],
         tps |-> [i \in DOMAIN thresholds |->
                    Cardinality({r \in DOMAIN y_true :
                                    y_true[r] = 1 /\ scores[r] >= thresholds[i]})]],
        LAMBDA all :
    Let(SortAsc({i \in DOMAIN thresholds :
                    \/ i = 1
                    \/ i = Len(thresholds)
                    \/ all.fps[i + 1] - 2 * all.fps[i] + all.fps[i - 1] # 0
                    \/ all.tps[i + 1] - 2 * all.tps[i] + all.tps[i - 1] # 0}),
        LAMBDA optimal_idxs :
        [fps |-> <<0>> \o [k \in DOMAIN optimal_idxs |-> all.fps[optimal_idxs[k]]],
         tps |-> <<0>> \o [k \in DOMAIN optimal_idxs |-> all.tps[optimal_idxs[k]]]])))

RECURSIVE Rates(_, _)
\* counts / counts[-1], the first n of them, every quotient a float64.
Rates(counts, n) ==
    IF n = 0 THEN <<>>
    ELSE Append(Rates(counts, n - 1), FloatDiv(counts[n], counts[Len(counts)]))

RECURSIVE Trapezoids(_, _, _)
\* d * (tpr[i + 1] + tpr[i]) / 2.0 for the first n differences d of fpr,
\* every difference, sum and product a float64.
Trapezoids(fpr, tpr, n) ==
    IF n = 0 THEN <<>>
    ELSE Append(Trapezoids(fpr, tpr, n - 1),
                FloatHalf(FloatMul(FloatSub(fpr[n + 1], fpr[n]),
                                   FloatPlus(tpr[n + 1], tpr[n]))))

\* np.trapz(y, x) for x = fps / fps[-1] and y = tps / tps[-1]: the sum of
\* the trapezoids.
Trapz(fps, tps) ==
    Let(Trapezoids(Rates(fps, Len(fps)), Rates(tps, Len(tps)), Len(fps) - 1), LAMBDA terms :
        PairwiseSum(terms, 1, Len(terms)))

\* roc_auc_score / auc(roc_curve(y_true, scores)), a float64, for a y_true
\* that holds both classes.
RocAuc(y_true, scores) ==
    Let(RocCurve(y_true, scores), LAMBDA curve : Trapz(curve.fps, curve.tps))

\* f'{x:.2f}' in hundredths: the value itself, not a float64 product, is
\* rounded to two places, a half to the even one.
Format2f(x) ==
    IF x.e >= 0 THEN BigInt(BigShiftLeft(BigTimesPlus(x.m, 100, 0), x.e))
    ELSE BigInt(RoundShift(BigTimesPlus(x.m, 100, 0), 0 - x.e, FALSE))

\* confusion_matrix(y_true, y_pred): the labels are the sorted values present
\* in either, entry [i][j] counts the rows of true label i predicted as j.
ConfusionMatrix(y_true, y_pred) ==
    Let(SortAsc(Range(y_true) \cup Range(y_pred)), LAMBDA labels :
        [i \in DOMAIN labels |-> [j \in DOMAIN labels |->
            Cardinality({r \in DOMAIN y_true :
                            y_true[r] = labels[i] /\ y_pred[r] = labels[j]})]])

\* The false negatives are read from the cell of the false positives.
CellsMisread(cm) ==
    [vn |-> cm[1][1], fp |-> cm[1][2], fn |-> cm[1][2], vp |-> cm[2][2]]

\* Lines 548-551: vn = cm[0, 0]; fp = cm[0, 1]; fn = cm[1, 0]; vp = cm[1, 1]
Cells(cm) ==
    [vn |-> cm[1][1], fp |-> cm[1][2], fn |-> cm[2][1], vp |-> cm[2][2]]

CallbackRaise(e) == [ok |-> FALSE, err |-> e, fig_cm |-> NoFigure, fig_roc |-> NoFigure]

\* Lines 538-607: the two figures for the selected model, or the exception
\* raised on the way (unknown name, predict, a matrix with a single label, a
\* model with neither predict_proba nor decision_function, a single score
\* column).
atualizar_matriz_confusao_roc(modelo_selecionado, registry, Xt, yt) ==
    IF Lookup(registry, modelo_selecionado) = 0
    THEN CallbackRaise(LookupError(modelo_selecionado))
    ELSE
    Let(registry[Lookup(registry, modelo_selecionado)].modelo, LAMBDA modelo :
    Let(Predict(modelo, Xt), LAMBDA y_previsao :
        IF ~y_previsao.ok THEN CallbackRaise(y_previsao.err)
        ELSE
    Let(ConfusionMatrix(yt.values, y_previsao.val), LAMBDA cm :
        IF Len(cm) < 2 THEN CallbackRaise("IndexError")
        ELSE
    Let(ScoresRoc(modelo, Xt), LAMBDA probabilidades :
        IF ~probabilidades.ok THEN CallbackRaise(probabilidades.err)
        ELSE IF Cardinality(Range(yt.values)) > 2 THEN CallbackRaise("ValueError")
        ELSE
    Let(Cells(cm), LAMBDA c :
        [ok |-> TRUE, err |-> "none",
         fig_cm |-> [drawn |-> TRUE,
                     z |-> << <<c.vp, c.fn>>, <<c.fp, c.vn>> >>,
                     vp |-> c.vp, fn |-> c.fn, fp |-> c.fp, vn |-> c.vn,
                     title |-> modelo_selecionado],
         fig_roc |-> [drawn |-> TRUE,
                      y_true |-> yt.values,
                      scores |-> probabilidades.val,
                      auc |-> IF Cardinality(Range(yt.values)) < 2 THEN NaN
                              ELSE Format2f(RocAuc(yt.values, probabilidades.val)),
                      title |-> modelo_selecionado]])))))

\* ---------------------------------------------------- the callback graph

\* How many requests the server works on at the same time: the requests it
\* has accepted finish in any order.
Workers == 2

\* How many times the user changes a dropdown.
MaxChanges == 2

\* Python's None: the value of a cleared dropdown.
None == <<>>

\* The dummy inputs are 'figure' properties instead of 'id' properties.
CallbacksOnFigures ==
    << [name |-> "atualizar_boxplot_valor",
        outputs |-> {<<"boxplot-valor", "figure">>},
        input |-> <<"histograma-valor", "figure">>],
       [name |-> "atualizar_histograma_valor",
        outputs |-> {<<"histograma-valor", "figure">>},
        input |-> <<"boxplot-valor", "figure">>],
       [name |-> "atualizar_barra_fraude_categoria",
        outputs |-> {<<"barra-fraude-categoria", "figure">>},
        input |-> <<"barra-fraude-idade", "figure">>],
       [name |-> "atualizar_barra_fraude_idade",
        outputs |-> {<<"barra-fraude-idade", "figure">>},
        input |-> <<"barra-fraude-categoria", "figure">>],
       [name |-> "atualizar_barra_metricas_modelo",
        outputs |-> {<<"barra-metricas-modelo", "figure">>},
        input |-> <<"barra-fraude-idade", "figure">>],
       [name |-> "atualizar_matriz_confusao_roc",
        outputs |-> {<<"matriz-confusao", "figure">>, <<"curva-roc", "figure">>},
        input |-> <<"seletor-modelo-dropdown", "value">>],
       [name |-> "atualizar_importancia_caracteristica",
        outputs |-> {<<"grafico-importancia-caracteristica", "figure">>},
        input |-> <<"dropdown-importancia-caracteristica", "value">>] >>

\* The Output and Input of each @app.callback decorator.
Callbacks ==
    << [name |-> "atualizar_boxplot_valor",
        outputs |-> {<<"boxplot-valor", "figure">>},
        input |-> <<"histograma-valor", "id">>],
       [name |-> "atualizar_histograma_valor",
        outputs |-> {<<"histograma-valor", "figure">>},
        input |-> <<"boxplot-valor", "id">>],
       [name |-> "atualizar_barra_fraude_categoria",
        outputs |-> {<<"barra-fraude-categoria", "figure">>},
        input |-> <<"barra-fraude-idade", "id">>],
       [name |-> "atualizar_barra_fraude_idade",
        outputs |-> {<<"barra-fraude-idade", "figure">>},
        input |-> <<"barra-fraude-categoria", "id">>],
       [name |-> "atualizar_barra_metricas_modelo",
        outputs |-> {<<"barra-metricas-modelo", "figure">>},
        input |-> <<"barra-fraude-idade", "id">>],
       [name |-> "atualizar_matriz_confusao_roc",
        outputs |-> {<<"matriz-confusao", "figure">>, <<"curva-roc", "figure">>},
        input |-> <<"seletor-modelo-dropdown", "value">>],
       [name |-> "atualizar_importancia_caracteristica",
        outputs |-> {<<"grafico-importancia-caracteristica", "figure">>},
        input |-> <<"dropdown-importancia-caracteristica", "value">>] >>

\* The callback registered under a name.
CallbackOf(name) == CHOOSE c \in Range(Callbacks) : c.name = name

\* The properties some callback writes.
OutputProps == UNION {c.outputs : c \in Range(Callbacks)}

\* The positions of the callbacks that have one of the properties as input.
DependOn(props) ==
    SortAsc({i \in DOMAIN Callbacks : Callbacks[i].input \in props})

\* The value of a property as the browser sends it with a request.
PropValue(prop, seletor, importancia) ==
    CASE prop = <<"seletor-modelo-dropdown", "value">> -> seletor
      [] prop = <<"dropdown-importancia-caracteristica", "value">> -> importancia
      [] prop[2] = "id" -> <<prop[1]>>
      [] OTHER -> <<prop[2]>>

\* The requests the browser sends when the properties have changed: one for
\* each callback that has one of them as its input.
Triggered(props, seletor, importancia) ==
    [k \in DOMAIN DependOn(props) |->
        [callback |-> Callbacks[DependOn(props)[k]].name,
         value |-> PropValue(Callbacks[DependOn(props)[k]].input, seletor, importancia)]]

\* The requests of the page load: every callback is called once with the
\* initial value of its input, except those whose input another callback
\* writes, which are called when that callback has answered.
InitialCalls(seletor, importancia) ==
    Triggered({c.input : c \in Range(Callbacks)} \ OutputProps, seletor, importancia)

\* value='Classificador XGBoost' of 'dropdown-importancia-caracteristica'
ImportanciaInicial == <<"Classificador", " ", "XGBoost">>

\* options of 'dropdown-importancia-caracteristica'
ImportanciaOptions ==
    { <<"Classificador", " ", "Random", " ", "Forest">>,
      <<"Classificador", " ", "XGBoost">> }

\* The sequence without its i-th element.
RemoveAt(s, i) == [k \in 1..(Len(s) - 1) |-> IF k < i THEN s[k] ELSE s[k + 1]]

\* The requests of a callback the server is working on.
Pending(name) ==
    {i \in 1..Min(Workers, Len(requests)) : requests[i].callback = name}

\* The state the serving actions never touch.
outside == <<env, np_global, pc, error, bound, dados_reduzidos, X, y, X_res, y_res,
             X_treino, y_treino, calls, training, app_pc, diagnostic>>

\* ------------------------------------------------ the exploratory charts

\* a == b on cells: a missing value equals nothing, itself included.
CellEq(a, b) == a # NaN /\ b # NaN /\ a = b

\* Series.unique(): the values in the order of their first appearance.
Unique(values) ==
    Let(SortAsc({p \in DOMAIN values : \A q \in 1..(p - 1) : values[q] # values[p]}),
        LAMBDA first : [k \in DOMAIN first |-> values[first[k]]])

\* df[df[col] == v][out]: the cells of column out in the rows where col is v.
Where(df, col, v, out) ==
    Let(SortAsc({p \in DOMAIN df.rows : CellEq(df.rows[p][col], v)}),
        LAMBDA at : [k \in DOMAIN at |-> df.rows[at[k]][out]])

\* df.groupby(key)[col].mean().reset_index(): a row per value of key that is
\* not missing, in ascending order, with the mean as the pair <<sum, count>>.
GroupMean(df, key, col) ==
    Let(SortAsc({df.rows[p][key] : p \in DOMAIN df.rows} \ {NaN}), LAMBDA keys :
        [k \in DOMAIN keys |->
            [key |-> keys[k],
             sum |-> SumSeq(Where(df, key, keys[k], col)),
             count |-> Len(Where(df, key, keys[k], col))]])

\* What a callback answers: the figures of its outputs, or its exception.
Answer(figs) == [ok |-> TRUE, err |-> "none", figs |-> figs]
AnswerRaise(e) == [ok |-> FALSE, err |-> e, figs |-> [g \in {} |-> NoFigure]]

HasColumns(df, cols) == cols \subseteq Range(df.columns)

\* Lines 408-425: a box of the amounts per category, in order of appearance.
atualizar_boxplot_valor(df) ==
    IF ~HasColumns(df, {"category"}) THEN AnswerRaise("KeyError")
    ELSE IF df.rows # <<>> /\ ~HasColumns(df, {"amount"}) THEN AnswerRaise("KeyError")
    ELSE Answer([g \in {"boxplot-valor"} |->
            [drawn |-> TRUE,
             traces |-> Let(Unique(Column(df, "category").values), LAMBDA cats :
                  [k \in DOMAIN cats |->
                      [name |-> cats[k], y |-> Where(df, "category", cats[k], "amount")]])]])

\* Lines 431-448: the amounts of the fraudulent and of the other rows.
atualizar_histograma_valor(df) ==
    IF ~HasColumns(df, {"fraud", "amount"}) THEN AnswerRaise("KeyError")
    ELSE Answer([g \in {"histograma-valor"} |->
            [drawn |-> TRUE,
             traces |-> << [name |-> "Fraudulenta", x |-> Where(df, "fraud", 1, "amount")],
                           [name |-> "Não Fraudulenta",
                            x |-> Where(df, "fraud", 0, "amount")] >>]])

\* The bars of a mean fraud rate per group, in percent: <<100 * sum, count>>.
FraudBars(df, key) ==
    Let(GroupMean(df, key, "fraud"), LAMBDA groups :
        [drawn |-> TRUE,
         x |-> [k \in DOMAIN groups |-> groups[k].key],
         y |-> [k \in DOMAIN groups |-> <<100 * groups[k].sum, groups[k].count>>]])

\* Lines 454-468: the share of fraud per category.
atualizar_barra_fraude_categoria(df) ==
    IF ~HasColumns(df, {"category", "fraud"}) THEN AnswerRaise("KeyError")
    ELSE Answer([g \in {"barra-fraude-categoria"} |-> FraudBars(df, "category")])

\* Lines 474-488: the share of fraud per age group.
atualizar_barra_fraude_idade(df) ==
    IF ~HasColumns(df, {"age", "fraud"}) THEN AnswerRaise("KeyError")
    ELSE Answer([g \in {"barra-fraude-idade"} |-> FraudBars(df, "age")])

\* ------------------------------------------------------ the metrics table

\* DataFrame.round(4) of the float64 n / d, in units of 1e-4: numpy rounds
\* the float64 product of the quotient and 10000 to the nearest whole number,
\* a half to the even one; zero_division=0.
Round4(n, d) ==
    IF d = 0 THEN 0
    ELSE FloatRint(FloatTimes(FloatDiv(n, d), 10000))

\* Lines 502-505: the scores behind the table's ROC-AUC.
ScoresMetricas(modelo, df) ==
    IF HasPredictProba(modelo)
    THEN IF modelo.kind = "KNeighborsClassifier" /\ modelo.n_fit < n_neighbors
         THEN [ok |-> FALSE, err |-> "ValueError", val |-> <<>>]
         ELSE IF Len(modelo.classes) < 2
         THEN [ok |-> FALSE, err |-> "IndexError", val |-> <<>>]
         ELSE [ok |-> TRUE, err |-> "none", val |-> SecondColumn(PredictProba(modelo, df))]
    ELSE DecisionFunction(modelo, df)

\* Lines 500-513: one iteration of the loop: the row of a model.
MetricRow(nome, modelo, Xt, yt) ==
    Let(Predict(modelo, Xt), LAMBDA previsoes :
        IF ~previsoes.ok THEN [ok |-> FALSE, err |-> previsoes.err]
        ELSE
    Let(ScoresMetricas(modelo, Xt), LAMBDA probabilidades :
        IF ~probabilidades.ok THEN [ok |-> FALSE, err |-> probabilidades.err]
        ELSE IF Cardinality(Range(yt.values)) # 2 THEN [ok |-> FALSE, err |-> "ValueError"]
        ELSE
    Let([tp |-> Cardinality({r \in DOMAIN yt.values :
                               yt.values[r] = 1 /\ previsoes.val[r] = 1}),
         fp |-> Cardinality({r \in DOMAIN yt.values :
                               yt.values[r] # 1 /\ previsoes.val[r] = 1}),
         fn |-> Cardinality({r \in DOMAIN yt.values :
                               yt.values[r] = 1 /\ previsoes.val[r] # 1})], LAMBDA c :
        [ok |-> TRUE, err |-> "none",
         Modelo |-> nome,
         Precisao |-> Round4(c.tp, c.tp + c.fp),
         Recall |-> Round4(c.tp, c.tp + c.fn),
         F1Score |-> Round4(2 * c.tp, 2 * c.tp + c.fp + c.fn),
         ROCAUC |-> FloatRint(FloatTimes(RocAuc(yt.values, probabilidades.val), 10000)),
         probabilidades |-> probabilidades.val])))

\* Lines 496-531: a row per registered model, in the registry's order; the
\* first exception of an iteration ends the callback.
atualizar_barra_metricas_modelo(registry, Xt, yt) ==
    Let([i \in DOMAIN registry |-> MetricRow(registry[i].nome, registry[i].modelo, Xt, yt)],
        LAMBDA linhas_df :
        IF \E i \in DOMAIN linhas_df : ~linhas_df[i].ok
        THEN AnswerRaise(linhas_df[CHOOSE i \in DOMAIN linhas_df :
                            /\ ~linhas_df[i].ok
                            /\ \A j \in 1..(i - 1) : linhas_df[j].ok].err)
        ELSE Answer([g \in {"barra-metricas-modelo"} |->
                       [drawn |-> TRUE, linhas |-> linhas_df]]))

\* ---------------------------------------------------- feature importance

\* hasattr(modelo, 'feature_importances_'): the forest and the boosted trees.
HasFeatureImportances(modelo) ==
    modelo.kind \in {"RandomForestClassifier", "XGBClassifier"}

\* modelo.feature_importances_: a weight per feature the model was fitted on,
\* in tenths: none where the trees never split, else on the amount (the
\* forest also on the category).
FeatureImportances(modelo) ==
    [k \in DOMAIN modelo.feature_names_in |->
        IF modelo.rule # "by_amount" THEN 0
        ELSE IF modelo.kind = "RandomForestClassifier"
             THEN (CASE modelo.feature_names_in[k] = "amount" -> 7
                     [] modelo.feature_names_in[k] = "category" -> 3
                     [] OTHER -> 0)
             ELSE (IF modelo.feature_names_in[k] = "amount" THEN 10 ELSE 0)]

\* The rows are left in the order of the columns.
Unsorted(weights) == [k \in DOMAIN weights |-> k]

\* sort_values(by='importancia', ascending=False): the positions of the rows,
\* largest weight first; rows of equal weight stay in their order (pandas
\* sorts the reversed column and reverses the result, and numpy sorts a
\* column this short by insertion).
SortValuesDesc(weights) ==
    [r \in DOMAIN weights |->
        CHOOSE k \in DOMAIN weights :
            Cardinality({j \in DOMAIN weights :
                            \/ weights[j] > weights[k]
                            \/ (weights[j] = weights[k] /\ j < k)}) = r - 1]

\* Lines 613-640: the bars of the weights, largest first, the placeholder for
\* a model without weights, or the exception (unknown name, columns and
\* weights of different lengths).
atualizar_importancia_caracteristica(modelo_selecionado, registry, Xt) ==
    IF Lookup(registry, modelo_selecionado) = 0
    THEN AnswerRaise(LookupError(modelo_selecionado))
    ELSE
    Let(registry[Lookup(registry, modelo_selecionado)].modelo, LAMBDA modelo :
        IF ~HasFeatureImportances(modelo)
        THEN Answer([g \in {"grafico-importancia-caracteristica"} |->
                 [drawn |-> TRUE, placeholder |-> TRUE, x |-> <<>>, y |-> <<>>,
                  title |-> <<"Não há Importância de Características para ">>
                              \o modelo_selecionado]])
        ELSE
    Let(FeatureImportances(modelo), LAMBDA importancias :
        IF Len(importancias) # Len(Xt.columns) THEN AnswerRaise("ValueError")
        ELSE
    Let(SortValuesDesc(importancias), LAMBDA o :
        Answer([g \in {"grafico-importancia-caracteristica"} |->
                 [drawn |-> TRUE, placeholder |-> FALSE,
                  x |-> [k \in DOMAIN o |-> importancias[o[k]]],
                  y |-> [k \in DOMAIN o |-> Xt.columns[o[k]]],
                  title |-> <<"Importância das Características para ">>
                              \o modelo_selecionado]]))))

\* ------------------------------------------------- browser and server

\* What startup loaded.
loaded == <<dados, X_teste, y_teste, colunas_caracteristicas>>

\* The page is opened: the dropdowns show their initial values and the
\* browser sends the initial call of every callback.
PageLoad ==
    /\ app_pc = "serving"
    /\ seletor_modelo = <<>>
    /\ seletor_modelo' = SeletorInicial
    /\ dropdown_importancia' = ImportanciaInicial
    /\ requests' = requests \o InitialCalls(SeletorInicial, ImportanciaInicial)
    /\ UNCHANGED <<outside, loaded, resultados_modelo, changes, runs, figures,
                   callback_error>>

\* The user may act: the page is open and the browser is not waiting for
\* too many answers.
UserMayChange ==
    /\ app_pc = "serving"
    /\ seletor_modelo # <<>>
    /\ Len(requests) < MaxPending
    /\ changes["seletor-modelo-dropdown"] + changes["dropdown-importancia-caracteristica"]
          < MaxChanges

\* The user picks another option of 'seletor-modelo-dropdown' (options: the
\* registry's keys, clearable=False): the browser sends the requests of the
\* callbacks that have its value as input.
SelectModel ==
    /\ UserMayChange
    /\ \E v \in Range(Keys(resultados_modelo)) \ {seletor_modelo} :
         /\ seletor_modelo' = v
         /\ requests' = requests \o
               Triggered({<<"seletor-modelo-dropdown", "value">>}, v, dropdown_importancia)
    /\ changes' = [changes EXCEPT !["seletor-modelo-dropdown"] = @ + 1]
    /\ UNCHANGED <<outside, loaded, resultados_modelo, dropdown_importancia, runs, figures,
                   callback_error>>

\* The user picks the other option of 'dropdown-importancia-caracteristica'.
SelectImportancia ==
    /\ UserMayChange
    /\ \E v \in ImportanciaOptions \ {dropdown_importancia} :
         /\ dropdown_importancia' = v
         /\ requests' = requests \o
               Triggered({<<"dropdown-importancia-caracteristica", "value">>},
                         seletor_modelo, v)
    /\ changes' = [changes EXCEPT !["dropdown-importancia-caracteristica"] = @ + 1]
    /\ UNCHANGED <<outside, loaded, resultados_modelo, seletor_modelo, runs, figures,
                   callback_error>>

\* The user clears 'dropdown-importancia-caracteristica' (clearable is left
\* at its default, True): its value becomes None.
ClearImportancia ==
    /\ UserMayChange
    /\ dropdown_importancia # None
    /\ dropdown_importancia' = None
    /\ requests' = requests \o
          Triggered({<<"dropdown-importancia-caracteristica", "value">>},
                    seletor_modelo, None)
    /\ changes' = [changes EXCEPT !["dropdown-importancia-caracteristica"] = @ + 1]
    /\ UNCHANGED <<outside, loaded, resultados_modelo, seletor_modelo, runs, figures,
                   callback_error>>

\* The server answers the i-th request, of callback name, with r: the figures
\* replace the outputs', or the exception is reported and the graphs stay as
\* they are; the browser then sends the requests of the callbacks that have a
\* changed property as input.
Respond(i, name, r) ==
    /\ requests' = RemoveAt(requests, i) \o
          (IF r.ok
           THEN Triggered(CallbackOf(name).outputs, seletor_modelo, dropdown_importancia)
           ELSE <<>>)
    /\ figures' = [g \in Graphs |-> IF g \in DOMAIN r.figs THEN r.figs[g] ELSE figures[g]]
    /\ callback_error' = r.err
    /\ runs' = [runs EXCEPT ![name] = @ + 1]
    /\ UNCHANGED <<outside, seletor_modelo, dropdown_importancia, changes>>

ServeBoxplotValor ==
    /\ app_pc = "serving"
    /\ \E i \in Pending("atualizar_boxplot_valor") :
         \E r \in {atualizar_boxplot_valor(dados)} :
            Respond(i, "atualizar_boxplot_valor", r)
    /\ UNCHANGED <<loaded, resultados_modelo>>

ServeHistogramaValor ==
    /\ app_pc = "serving"
    /\ \E i \in Pending("atualizar_histograma_valor") :
         \E r \in {atualizar_histograma_valor(dados)} :
            Respond(i, "atualizar_histograma_valor", r)
    /\ UNCHANGED <<loaded, resultados_modelo>>

ServeBarraFraudeCategoria ==
    /\ app_pc = "serving"
    /\ \E i \in Pending("atualizar_barra_fraude_categoria") :
         \E r \in {atualizar_barra_fraude_categoria(dados)} :
            Respond(i, "atualizar_barra_fraude_categoria", r)
    /\ UNCHANGED <<loaded, resultados_modelo>>

ServeBarraFraudeIdade ==
    /\ app_pc = "serving"
    /\ \E i \in Pending("atualizar_barra_fraude_idade") :
         \E r \in {atualizar_barra_fraude_idade(dados)} :
            Respond(i, "atualizar_barra_fraude_idade", r)
    /\ UNCHANGED <<loaded, resultados_modelo>>

ServeBarraMetricasModelo ==
    /\ app_pc = "serving"
    /\ \E i \in Pending("atualizar_barra_metricas_modelo") :
         \E r \in {atualizar_barra_metricas_modelo(resultados_modelo, X_teste, y_teste)} :
            Respond(i, "atualizar_barra_metricas_modelo", r)
    /\ UNCHANGED <<loaded, resultados_modelo>>

\* The answer of atualizar_matriz_confusao_roc as the figures of its outputs.
ConfusaoRocAnswer(r) ==
    IF r.ok
    THEN Answer([g \in {"matriz-confusao", "curva-roc"} |->
                    IF g = "matriz-confusao" THEN r.fig_cm ELSE r.fig_roc])
    ELSE AnswerRaise(r.err)

ServeConfusaoRoc ==
    /\ app_pc = "serving"
    /\ \E i \in Pending("atualizar_matriz_confusao_roc") :
         /\ \E r \in {atualizar_matriz_confusao_roc(requests[i].value, resultados_modelo,
                                                     X_teste, y_teste)} :
               Respond(i, "atualizar_matriz_confusao_roc", ConfusaoRocAnswer(r))
         /\ resultados_modelo' = RegistryAfterLookup(resultados_modelo, requests[i].value)
    /\ UNCHANGED loaded

ServeImportanciaCaracteristica ==
    /\ app_pc = "serving"
    /\ \E i \in Pending("atualizar_importancia_caracteristica") :
         /\ \E r \in {atualizar_importancia_caracteristica(requests[i].value,
                                                           resultados_modelo, X_teste)} :
               Respond(i, "atualizar_importancia_caracteristica", r)
         /\ resultados_modelo' = RegistryAfterLookup(resultados_modelo, requests[i].value)
    /\ UNCHANGED loaded

Browser == PageLoad \/ SelectModel \/ SelectImportancia \/ ClearImportancia

Server ==
    \/ ServeBoxplotValor \/ ServeHistogramaValor
    \/ ServeBarraFraudeCategoria \/ ServeBarraFraudeIdade
    \/ ServeBarraMetricasModelo \/ ServeConfusaoRoc \/ ServeImportanciaCaracteristica

NextServe == Startup \/ Browser \/ Server

\* One run of app.py on the files of a training run.
SpecServe == InitServe /\ [][NextServe]_vars

\* C10: the four counts of every confusion matrix the callback has drawn,
\* whatever model was selected and whatever was selected before, add up to
\* the number of rows of the test split.
C10_CountsAddUp ==
    figures["matriz-confusao"].drawn =>
        figures["matriz-confusao"].vp + figures["matriz-confusao"].vn
          + figures["matriz-confusao"].fp + figures["matriz-confusao"].fn
            = Len(y_teste.values)

C10_Witness ==
    /\ figures["matriz-confusao"].drawn
    /\ figures["matriz-confusao"].title = RegistryNames[2]
    /\ seletor_modelo = RegistryNames[1]
    /\ figures["matriz-confusao"].fp > 0
    /\ figures["matriz-confusao"].fn = 0
    /\ figures["matriz-confusao"].vp + figures["matriz-confusao"].vn
          + figures["matriz-confusao"].fp + figures["matriz-confusao"].fn
            = Len(y_teste.values)


\* Some file app.py reads at startup is not on disk.
SomeFileMissing == \E q \in Range(LoadOrder) : q \notin DOMAIN files

NothingServed ==
    /\ resultados_modelo = <<>>
    /\ seletor_modelo = <<>> /\ dropdown_importancia = <<>>
    /\ requests = <<>>
    /\ figures = NoFigures
    /\ \A c \in Range(CallbackNames) : runs[c] = 0

\* C11: when a file app.py reads is missing, startup ends the process with a
\* message naming a missing file (the first in reading order) and nothing is
\* ever registered or served; the serving state is reached only when every
\* file was there and loaded.
C11_FailFast ==
    /\ (SomeFileMissing /\ app_pc # "start") =>
          /\ app_pc = "exited"
          /\ diagnostic \in Range(LoadOrder) /\ diagnostic \notin DOMAIN files
          /\ diagnostic = LoadOrder[FirstMissing(files)]
    /\ app_pc # "serving" => NothingServed
    /\ app_pc = "exited" => SomeFileMissing
    /\ app_pc = "serving" =>
          /\ Range(LoadOrder) \subseteq DOMAIN files
          /\ diagnostic = <<>>
          /\ dados = files[DatasetPath]
          /\ Keys(resultados_modelo) = RegistryNames

C11_Witness ==
    /\ app_pc = "exited"
    /\ diagnostic = <<"models/", "Classificador", "_", "Random", "_", "Forest", ".pkl">>
    /\ {<<"data/X_test.pkl">>, <<"data/y_test.pkl">>, <<"data/feature_columns.pkl">>}
          \subseteq DOMAIN files
    /\ NothingServed


\* C12: once app.py serves, no step of the browser or of a callback, in any
\* order of requests and answers, changes the registry (its names, their
\* order, the predictor of each name) or the loaded dados, X_teste, y_teste
\* and feature columns.
C12_ReadOnly ==
    [][app_pc = "serving" =>
          /\ resultados_modelo' = resultados_modelo
          /\ dados' = dados /\ X_teste' = X_teste /\ y_teste' = y_teste
          /\ colunas_caracteristicas' = colunas_caracteristicas]_vars

\* The registry and the frames as startup built them from the files.
LoadedAsAtStartup ==
    /\ resultados_modelo =
          [i \in DOMAIN RegistryNames |->
              [nome |-> RegistryNames[i], modelo |-> files[LoadOrder[4 + i]]]]
    /\ dados = files[LoadOrder[1]]
    /\ X_teste = DataFrameWithColumns(files[LoadOrder[2]], files[LoadOrder[4]])
    /\ y_teste = files[LoadOrder[3]]

C12_Witness ==
    /\ app_pc = "serving"
    /\ runs["atualizar_barra_metricas_modelo"] = 1
    /\ runs["atualizar_barra_fraude_idade"] = 0
    /\ runs["atualizar_matriz_confusao_roc"] = 1
    /\ Len(requests) >= 2
    /\ LoadedAsAtStartup


\* The name a drawn figure was made for (None when it has no title).
FigureName(g) ==
    IF ~figures[g].drawn \/ "title" \notin DOMAIN figures[g] THEN None
    ELSE IF g = "grafico-importancia-caracteristica"
         THEN SubSeq(figures[g].title, 2, Len(figures[g].title))
         ELSE figures[g].title

SelectorGraphs == {"matriz-confusao", "curva-roc", "grafico-importancia-caracteristica"}

\* ------------------------------------------- queries with any model name

\* The two callbacks that look their input up in the registry.
LookupCallbacks ==
    {"atualizar_matriz_confusao_roc", "atualizar_importancia_caracteristica"}

\* A name no model is registered under.
Unregistered == <<"Classificador", " ", "SVM">>

\* The values a request for one of the two callbacks may carry: the page
\* sends an option of the dropdown or None, another client of the route
\* /_dash-update-component sends any JSON value, a string, null, an array
\* or an object.
QueryValues ==
    Range(RegistryNames) \cup {None, Unregistered, EmptyList, ListOfName, EmptyDict}

\* Requests sent to the two callbacks in one run of the server.
MaxQueries == 3

\* The requests of a callback the browser has sent and the server has not
\* answered.
Waiting(name) == Cardinality({i \in DOMAIN requests : requests[i].callback = name})

\* A client sends a request for one of the two callbacks, with any value.
PostQuery ==
    /\ app_pc = "serving"
    /\ Len(requests) < MaxPending
    /\ runs["atualizar_matriz_confusao_roc"] + runs["atualizar_importancia_caracteristica"]
          + Len(requests) < MaxQueries
    /\ \E name \in LookupCallbacks, v \in QueryValues :
          requests' = Append(requests, [callback |-> name, value |-> v])
    /\ UNCHANGED <<outside, loaded, resultados_modelo, seletor_modelo,
                   dropdown_importancia, changes, runs, figures, callback_error>>

\* app.py is started on the files of a completed training run, in which
\* the forest decides by the amount and the boosted trees always give the
\* first class.
InitQuery ==
    /\ InitServe
    /\ generator = 1
    /\ Range(LoadOrder) \subseteq DOMAIN files
    /\ files[LoadOrder[6]].rule = "by_amount"
    /\ files[LoadOrder[7]].rule = "first_class"

NextQuery ==
    Startup \/ PostQuery \/ ServeConfusaoRoc \/ ServeImportanciaCaracteristica

\* The two callbacks queried with any values, in any order.
SpecQuery == InitQuery /\ [][NextQuery]_vars

\* The graphs a callback writes.
GraphsOf(name) == {o[1] : o \in CallbackOf(name).outputs}

\* The step answers the i-th request, a request of the callback.
Answers(name, i) ==
    /\ i \in Pending(name)
    /\ runs'[name] = runs[name] + 1
    /\ requests' = RemoveAt(requests, i)

\* C14: a query of either callback with a value that is not a registered
\* name is answered with an exception (KeyError; TypeError for a list or a
\* dict) and no figure, and leaves the graphs, the
\* registry, the loaded frames and the files as they were; no graph ever
\* shows a figure for a name that is not registered; a query with a
\* registered name leaves the registry and the frames as they were too, and
\* when a graph of the callback already shows a figure drawn for that name,
\* whatever queries failed since it was drawn, the answer is that same
\* figure.
C14_UnknownName ==
    /\ [](\A g \in SelectorGraphs :
            figures[g].drawn => FigureName(g) \in Range(Keys(resultados_modelo)))
    /\ [][\A name \in LookupCallbacks : \A i \in DOMAIN requests :
            Answers(name, i) =>
                /\ resultados_modelo' = resultados_modelo
                /\ dados' = dados /\ X_teste' = X_teste /\ y_teste' = y_teste
                /\ colunas_caracteristicas' = colunas_caracteristicas
                /\ files' = files
                /\ IF requests[i].value \notin Range(Keys(resultados_modelo))
                   THEN /\ callback_error' =
                              (IF requests[i].value \in {EmptyList, ListOfName, EmptyDict}
                               THEN "TypeError" ELSE "KeyError")
                        /\ figures' = figures
                   ELSE \A g \in GraphsOf(name) :
                           (figures[g].drawn /\ FigureName(g) = requests[i].value) =>
                               figures'[g] = figures[g]]_vars

\* The confusion/ROC callback drew the figures of a model, then answered a
\* query for a name that is not registered with the KeyError, the figures
\* staying, and is now asked for the first model again.
C14_Witness ==
    /\ runs["atualizar_matriz_confusao_roc"] = 2
    /\ runs["atualizar_importancia_caracteristica"] = 0
    /\ callback_error = "KeyError"
    /\ figures["matriz-confusao"].drawn /\ figures["curva-roc"].drawn
    /\ FigureName("curva-roc") = RegistryNames[1]
    /\ requests = <<[callback |-> "atualizar_matriz_confusao_roc",
                     value |-> RegistryNames[1]]>>

\* The importance callback drew the bars of a model, then answered a query
\* that carried a list with the TypeError, the bars staying.
C14_WitnessUnhashable ==
    /\ runs["atualizar_importancia_caracteristica"] = 2
    /\ callback_error = "TypeError"
    /\ figures["grafico-importancia-caracteristica"].drawn
    /\ requests = <<>>


\* ------------------------------------------------- the importance callback on every registered name

\* Lines 609-640 called with a registered name, whichever it is (the page's
\* dropdown offers two of the three).
CallImportancia ==
    /\ app_pc = "serving"
    /\ \E nome \in Range(Keys(resultados_modelo)) :
         \E r \in {atualizar_importancia_caracteristica(nome, resultados_modelo, X_teste)} :
            /\ figures' = [g \in Graphs |->
                              IF g \in DOMAIN r.figs THEN r.figs[g] ELSE figures[g]]
            /\ callback_error' = r.err
    /\ UNCHANGED <<outside, loaded, resultados_modelo, seletor_modelo,
                   dropdown_importancia, changes, runs, requests>>

NextImportancia == Startup \/ CallImportancia

SpecImportancia == InitServe /\ [][NextImportancia]_vars

\* The model registered under the name the importance figure was drawn for.
ImportanciaModel ==
    resultados_modelo[Lookup(resultados_modelo,
                             FigureName("grafico-importancia-caracteristica"))].modelo

\* The bars pair every column of the test matrix, once, with the weight the
\* model holds at the column's position.
OnePairPerColumn(fig, modelo) ==
    /\ Len(fig.x) = Len(X_teste.columns)
    /\ Len(fig.y) = Len(X_teste.columns)
    /\ \A p \in DOMAIN X_teste.columns :
          \E k \in DOMAIN fig.y :
             /\ fig.y[k] = X_teste.columns[p]
             /\ fig.x[k] = FeatureImportances(modelo)[p]
             /\ \A j \in DOMAIN fig.y : fig.y[j] = fig.y[k] => j = k

Descending(x) == \A k \in 1..(Len(x) - 1) : x[k] >= x[k + 1]

\* C15: called with a registered name the importance callback raises
\* nothing; for a model with feature importances the figure has one bar per
\* column of X_teste, the column paired with the weight at its position,
\* largest weight first; for a model without them the figure is the
\* placeholder.
C15_Importancia ==
    (app_pc = "serving" /\ figures["grafico-importancia-caracteristica"].drawn) =>
        /\ callback_error = "none"
        /\ IF HasFeatureImportances(ImportanciaModel)
           THEN /\ ~figures["grafico-importancia-caracteristica"].placeholder
                /\ OnePairPerColumn(figures["grafico-importancia-caracteristica"],
                                    ImportanciaModel)
                /\ Descending(figures["grafico-importancia-caracteristica"].x)
           ELSE /\ figures["grafico-importancia-caracteristica"].placeholder
                /\ figures["grafico-importancia-caracteristica"].x = <<>>

\* The random forest's bars with two different positive weights, the larger
\* one belonging to a later column than the smaller one.
C15_Witness ==
    /\ figures["grafico-importancia-caracteristica"].drawn
    /\ HasFeatureImportances(ImportanciaModel)
    /\ figures["grafico-importancia-caracteristica"].x[1] >
          figures["grafico-importancia-caracteristica"].x[2]
    /\ figures["grafico-importancia-caracteristica"].x[2] > 0
    /\ C15_Importancia

\* The k-nearest-neighbours model, which has no feature importances, got the
\* placeholder figure.
C15_WitnessPlaceholder ==
    /\ figures["grafico-importancia-caracteristica"].drawn
    /\ ~HasFeatureImportances(ImportanciaModel)
    /\ figures["grafico-importancia-caracteristica"].placeholder


\* ------------------------------------------------ the scores of a model

\* train.py has run to its end on some dataset; since then one of the three
\* model files may have been written again by another script, which fitted
\* a classifier without predict_proba on the same training rows (place 0:
\* none was). app.py is about to start.
InitScores ==
    /\ \E cr \in ServeClassRows, rules \in RotatedRules, place \in 0..Len(modelos_a_treinar) :
         \E df \in {RawFrame(cr[1], cr[2], TRUE, TRUE, <<NumCat, 1>>, TRUE)} :
         \E res \in {pre_processar_dados(df, GlobalRandomState(1))} :
            /\ res.ok
            /\ raw = df
            /\ generator = 1
            /\ dirs = Directories
            /\ np_global = GlobalRandomState(1)
            /\ files = IF place = 0 THEN TrainFiles(df, res, rules)
                       ELSE Dump(TrainFiles(df, res, rules),
                                 ModelPath(modelos_a_treinar[place].nome),
                                 Fit(LinearSVC, rules[place], res.X_treino, res.y_treino))
    /\ TrainingOver

SpecScores == InitScores /\ [][NextServe]_vars

\* The row of the metrics figure for the model the ROC curve is drawn for.
RowOfRocModel ==
    figures["barra-metricas-modelo"].linhas[
        Lookup(resultados_modelo, FigureName("curva-roc"))]

RocModel == resultados_modelo[Lookup(resultados_modelo, FigureName("curva-roc"))].modelo

\* The rows of the test set the scores put above the threshold.
Above(scores, threshold) == {r \in DOMAIN scores : scores[r] > threshold}

\* The column of predict_proba that belongs to the class of label 1, fraud.
FraudColumn(modelo) == CHOOSE c \in DOMAIN modelo.classes : modelo.classes[c] = 1

\* C16: when the metrics figure and the ROC curve are both drawn, the row of
\* the table for the curve's model was computed from the very scores the
\* curve was drawn from, score by score. For a model with predict_proba
\* they are probabilities, those of the class labelled fraud, so that the
\* rows scored above one half are the rows the confusion matrix of the same
\* model counts as predicted fraud; for a model without, they are its
\* decision values, which order the rows as the amounts do when the model
\* decides by the amount and put above zero the rows predicted fraud.
C16_SameScores ==
    (figures["barra-metricas-modelo"].drawn /\ figures["curva-roc"].drawn) =>
        /\ RowOfRocModel.Modelo = FigureName("curva-roc")
        /\ RowOfRocModel.probabilidades = figures["curva-roc"].scores
        /\ DOMAIN figures["curva-roc"].scores = DOMAIN X_teste.rows
        /\ figures["matriz-confusao"].title = figures["curva-roc"].title
        /\ IF HasPredictProba(RocModel)
           THEN /\ \A r \in DOMAIN X_teste.rows :
                      /\ figures["curva-roc"].scores[r] \in 0..10
                      /\ figures["curva-roc"].scores[r] =
                            PredictProba(RocModel, X_teste)[r][FraudColumn(RocModel)]
                      /\ figures["curva-roc"].scores[r] =
                            10 - PredictProba(RocModel, X_teste)[r][1]
                /\ Cardinality(Above(figures["curva-roc"].scores, 5)) =
                      figures["matriz-confusao"].vp + figures["matriz-confusao"].fp
           ELSE /\ Cardinality(Above(figures["curva-roc"].scores, 0)) =
                      figures["matriz-confusao"].vp + figures["matriz-confusao"].fp
                /\ RocModel.rule = "by_amount" =>
                      \A r1, r2 \in DOMAIN X_teste.rows :
                         (figures["curva-roc"].scores[r1] < figures["curva-roc"].scores[r2])
                            <=> (Whole(X_teste.dtypes["amount"], X_teste.rows[r1]["amount"])
                                   < Whole(X_teste.dtypes["amount"],
                                           X_teste.rows[r2]["amount"]))

\* Both figures are drawn; the curve's model has no predict_proba and its
\* decision values, some below zero and some above, are the scores of the
\* curve and of its row of the table; in the same table the k-neighbours
\* classifier gives some row a probability strictly between 0 and 1.
C16_Witness ==
    /\ figures["barra-metricas-modelo"].drawn
    /\ figures["curva-roc"].drawn
    /\ ~HasPredictProba(RocModel)
    /\ Above(figures["curva-roc"].scores, 0) # {}
    /\ Above(figures["curva-roc"].scores, 0) # DOMAIN figures["curva-roc"].scores
    /\ \E k \in DOMAIN figures["barra-metricas-modelo"].linhas :
          /\ resultados_modelo[k].modelo.kind = "KNeighborsClassifier"
          /\ \E r \in DOMAIN figures["barra-metricas-modelo"].linhas[k].probabilidades :
                /\ figures["barra-metricas-modelo"].linhas[k].probabilidades[r] > 0
                /\ figures["barra-metricas-modelo"].linhas[k].probabilidades[r] < 10
    /\ C16_SameScores

\* Both figures are drawn and the curve's model, the k-neighbours
\* classifier, gives some row a probability strictly between 0 and 1.
C16_WitnessProba ==
    /\ figures["barra-metricas-modelo"].drawn
    /\ figures["curva-roc"].drawn
    /\ RocModel.kind = "KNeighborsClassifier"
    /\ \E r \in DOMAIN figures["curva-roc"].scores :
          /\ figures["curva-roc"].scores[r] > 0
          /\ figures["curva-roc"].scores[r] < 10
    /\ C16_SameScores


\* ------------------------------------------------- train.py, then app.py

\* The file the dump of lines 44-46 at step writes.
DataPath(step) ==
    CASE step = "dump_X" -> <<"data/X_test.pkl">>
      [] step = "dump_y" -> <<"data/y_test.pkl">>
      [] OTHER -> <<"data/feature_columns.pkl">>

\* The script is interrupted (KeyboardInterrupt, a kill) in the loop or in
\* the dumps: it ends where it is. Between two statements the files are
\* those written so far; inside an iteration the interrupt may come after
\* line 38 has kept the model and before line 40 has written it; inside a
\* joblib.dump (lines 40, 44, 45, 46) it may come after the file was opened
\* and before it was written, and the file is left without its content.
Abort ==
    /\ pc \in {"fit", "dump_X", "dump_y", "dump_cols"}
    /\ pc' = "aborted"
    /\ \/ UNCHANGED <<modelos_treinados, files>>
       \/ /\ pc = "fit"
          /\ Len(modelos_treinados) < Len(modelos_a_treinar)
          /\ \E rule \in PredictorRules :
               modelos_treinados' =
                  SetItem(modelos_treinados,
                          modelos_a_treinar[Len(modelos_treinados) + 1].nome,
                          Fit(modelos_a_treinar[Len(modelos_treinados) + 1].kind, rule,
                              X_treino, y_treino))
          /\ \/ UNCHANGED files
             \/ /\ ~DumpRaises(ModelPath(modelos_a_treinar[Len(modelos_treinados) + 1].nome),
                               dirs)
                /\ files' = Dump(files,
                                 ModelPath(modelos_a_treinar[Len(modelos_treinados) + 1].nome),
                                 Truncated)
       \/ /\ pc # "fit"
          /\ ~DumpRaises(DataPath(pc), dirs)
          /\ files' = Dump(files, DataPath(pc), Truncated)
          /\ UNCHANGED modelos_treinados
    /\ UNCHANGED <<env, np_global, error, bound, locals, returned, calls, app>>

\* app.py is started once train.py has ended, however it ended.
StartupAfterTraining ==
    /\ pc \in {"done", "failed", "aborted"}
    /\ Startup

\* The datasets of the runs followed into the dashboard: those with both zip
\* code columns, which line 12 needs.
InitPipeline ==
    /\ InitTrain
    /\ Range(ZipColumns) \subseteq Range(raw.columns)

NextPipeline == Next \/ Abort \/ StartupAfterTraining

SpecPipeline == InitPipeline /\ [][NextPipeline]_vars

\* The files of models/ and data/ beside the dataset, which train.py reads
\* and never writes.
Written == DOMAIN files \ {DatasetPath}

\* The registry binds every name to the model trained under that name.
RegistryIsTrained ==
    /\ Len(resultados_modelo) = Len(modelos_treinados)
    /\ \A i \in DOMAIN resultados_modelo :
          \E j \in DOMAIN modelos_treinados :
             /\ modelos_treinados[j].nome = resultados_modelo[i].nome
             /\ modelos_treinados[j].modelo = resultados_modelo[i].modelo

\* A completed run wrote exactly the artifact files app.py loads, and app.py
\* started on them reaches the layout with every registry name bound to the
\* model trained under it and the test data as trained.
CompletedRunServes ==
    /\ pc = "done" => Written = Range(LoadOrder) \ {DatasetPath}
    /\ (pc = "done" /\ app_pc # "start") =>
          /\ app_pc = "serving"
          /\ RegistryIsTrained
          /\ y_teste = files[<<"data/y_test.pkl">>]
          /\ X_teste.rows = files[<<"data/X_test.pkl">>].rows

\* C17: a completed run is served, and when train.py ended before its last
\* step, app.py started on what it left ends at startup and never reaches
\* the layout: it takes the missing-file exit, naming the first file that is
\* absent, or, when the run was interrupted inside a dump, it ends on the
\* error of loading the file that dump left without its content.
C17_Artifacts ==
    /\ CompletedRunServes
    /\ (pc \in {"failed", "aborted"} /\ app_pc # "start") =>
          /\ app_pc \in {"exited", "crashed"}
          /\ resultados_modelo = <<>>
          /\ app_pc = "exited" =>
                /\ diagnostic = LoadOrder[FirstMissing(files)]
                /\ diagnostic \notin DOMAIN files
          /\ app_pc = "crashed" =>
                /\ diagnostic = <<>>
                /\ pc = "aborted"
                /\ files[LoadOrder[FirstUnreadable(files)]] = Truncated

\* The dashboard serves the three models of a run that ended.
C17_Witness ==
    /\ pc = "done"
    /\ app_pc = "serving"
    /\ Len(resultados_modelo) = 3
    /\ RegistryIsTrained

\* The dashboard exited on what a run left that had saved its models and
\* ended before the test data were written.
C17_WitnessAborted ==
    /\ pc = "aborted"
    /\ app_pc = "exited"
    /\ \A i \in DOMAIN modelos_a_treinar : ModelPath(modelos_a_treinar[i].nome) \in Written
    /\ diagnostic = <<"data/X_test.pkl">>
    /\ C17_Artifacts

\* The run was interrupted inside the dump of the test features, after the
\* three models were saved, and the dashboard started on what it left ended
\* on the load of that file.
C17_WitnessTruncated ==
    /\ pc = "aborted"
    /\ app_pc = "crashed"
    /\ files[<<"data/X_test.pkl">>] = Truncated
    /\ \A i \in DOMAIN modelos_a_treinar :
          /\ ModelPath(modelos_a_treinar[i].nome) \in Written
          /\ files[ModelPath(modelos_a_treinar[i].nome)] # Truncated
    /\ C17_Artifacts


\* The requests of the two callbacks that look their input up in the registry.
LookupRequests ==
    {i \in DOMAIN requests :
        requests[i].callback \in {"atualizar_matriz_confusao_roc",
                                  "atualizar_importancia_caracteristica"}}

\* C18: every value a model dropdown sends to its callback is a key of
\* resultados_modelo, and no answer is a KeyError.
C18_AsClaimed ==
    app_pc = "serving" =>
        /\ \A i \in LookupRequests :
              requests[i].value \in Range(Keys(resultados_modelo))
        /\ callback_error # "KeyError"


\* The dropdown whose value is the callback's input, if it has one.
DropdownOf(name) == CallbackOf(name).input[1]

\* How often the callback has been called for since the page was opened if
\* nothing but the page load and the changes of its own dropdown calls it.
CallsDue(name) ==
    IF DropdownOf(name) \in Dropdowns THEN 1 + changes[DropdownOf(name)] ELSE 1

NoCascade == \A c \in Range(Callbacks) : c.input \notin OutputProps

\* C19: no callback has a property as input that a callback writes; once
\* the page is open every callback has been called for once, plus once for
\* each change of its own dropdown, so that with no request waiting the five
\* callbacks on an id have run once and the two on a dropdown once more than
\* it was changed; an answer takes one request off the queue and adds none,
\* and a change of a dropdown adds one.
C19_NoCascade ==
    /\ [](/\ NoCascade
          /\ seletor_modelo # <<>> =>
                \A name \in Range(CallbackNames) :
                    runs[name] + Waiting(name) = CallsDue(name))
    /\ [][/\ runs' # runs => Len(requests') = Len(requests) - 1
          /\ changes' # changes => Len(requests') = Len(requests) + 1]_vars

\* Both dropdowns were changed, every request is answered, and the two
\* callbacks on the dropdowns have run once more than their dropdown changed.
C19_Witness ==
    /\ requests = <<>>
    /\ changes["seletor-modelo-dropdown"] > 0
    /\ changes["dropdown-importancia-caracteristica"] > 0
    /\ runs["atualizar_matriz_confusao_roc"] = 1 + changes["seletor-modelo-dropdown"]
    /\ runs["atualizar_importancia_caracteristica"] =
          1 + changes["dropdown-importancia-caracteristica"]
    /\ \A name \in Range(CallbackNames) :
          DropdownOf(name) \notin Dropdowns => runs[name] = 1

=============================================================================
